------------------------------- MODULE Scopes -------------------------------
(***************************************************************************)
(* The second pass of the semantic analyser over declarations and          *)
(* statements: the symbol tables, the frame a function's variables are     *)
(* given offsets in, the three lookups that resolve a name, and the count  *)
(* of the errors found.                                                    *)
(*                                                                         *)
(* An expression is a literal or a variable: what an operator, a call or a *)
(* member access does with the types of its operands changes no table.     *)
(***************************************************************************)
EXTENDS NebulaTypes, SourceWalk

CONSTANTS
  Names,        (* Names of variables.                                     *)
  FuncNames,    (* Names of functions.                                     *)
  Types,        (* Types a variable can be declared with.                  *)
  Literals,     (* Types of literals.                                      *)
  StructInfo,   (* Struct name -> [size, alignment], from StructLayout.    *)
  EnumBacking,  (* Enum name -> kind of its backing type.                  *)
  MaxErrors     (* Bound: errors counted.                                  *)

ASSUME ScopesAssumption ==
  /\ \A t \in Types : \/ t.kind \in Kinds \ {"STRUCT", "ENUM"} /\ t = Builtin(t.kind)
                      \/ /\ t.kind = "STRUCT" /\ t.name \in DOMAIN StructInfo
                         /\ t = [kind |-> "STRUCT", name |-> t.name]
                      \/ /\ t.kind = "ENUM" /\ t.name \in DOMAIN EnumBacking
                         /\ t = [kind |-> "ENUM", name |-> t.name]
  /\ \A s \in DOMAIN StructInfo : /\ StructInfo[s].size \in 0..Word-1
                                  /\ StructInfo[s].alignment \in AllAlignments
  /\ \A e \in DOMAIN EnumBacking : EnumBacking[e] \in {"UINT8", "UINT16"}
  /\ Literals \subseteq {Builtin("INT32"), Builtin("FLOAT32")}
  /\ MaxErrors \in Nat

VARIABLES
  functions,    (* name -> return type of the first function so named      *)
  globals,      (* globalSymbolTable                                       *)
  scopeStack,   (* a name -> SymboleInfo table per open scope              *)
  currentFunc,  (* [returns, declared]: currentFunc.retType and n.retType  *)
  offset,       (* where the next local goes                               *)
  paramOffset,  (* where the next parameter goes                           *)
  locals,       (* history: type and vInfo offset of each local declared   *)
                (* in the current function, in order                       *)
  errorNumber,
  exact,        (* history: no offset of the current function wrapped, and *)
                (* none was computed from a sentinel                       *)
  crashed       (* a null pointer was followed                             *)

tables == <<functions, globals>>
frame  == <<offset, paramOffset, locals, exact>>
vars   == <<open, nodes, functions, globals, scopeStack, currentFunc, offset,
            paramOffset, locals, errorNumber, exact, crashed>>

NoFunction == [returns |-> Builtin("VOID"), declared |-> Builtin("VOID")]
EmptyScope == <<>>

SymboleInfo(type, stackOffset, isGlobal) ==
  [type |-> type, stackOffset |-> stackOffset, isGlobal |-> isGlobal]

(* Mutant: the entry is replaced.                                          *)
insert_or_assign(table, n, info) ==
  [m \in DOMAIN table \cup {n} |-> IF m = n THEN info ELSE table[m]]

(* unordered_map::emplace leaves an entry that is there alone.             *)
emplace(table, n, info) ==
  [m \in DOMAIN table \cup {n} |-> IF m \in DOMAIN table THEN table[m] ELSE info]

-----------------------------------------------------------------------------
(***************************************************************************)
(* The lookups, on a stack of scopes and the table of globals.             *)
(***************************************************************************)
Holding(stack, n) == {d \in DOMAIN stack : n \in DOMAIN stack[d]}

(* The scopes a loop over the stack stops at or takes note of, when it     *)
(* tests the globals inside the loop.                                      *)
Hits(stack, gl, n) == IF n \in DOMAIN gl THEN DOMAIN stack ELSE Holding(stack, n)

Innermost(S) == CHOOSE d \in S : \A e \in S : e <= d
Outermost(S) == CHOOSE d \in S : \A e \in S : d <= e

InfoAt(stack, gl, d, n) == IF n \in DOMAIN stack[d] THEN stack[d][n] ELSE gl[n]

(* The visitor of VariableAccessNode: its loop runs from the innermost     *)
(* scope and does not stop, so the outermost hit is the one that stays.    *)
accessFound(stack, gl, n) == Hits(stack, gl, n) # {}
accessInfo(stack, gl, n)  ==
  InfoAt(stack, gl, Outermost(Hits(stack, gl, n)), n)

(* resolveVariable returns at the first hit.                               *)
resolveVariable(stack, gl, n) ==
  IF Hits(stack, gl, n) = {} THEN SymboleInfo(Builtin("INT32"), 0, FALSE)
  ELSE InfoAt(stack, gl, Innermost(Hits(stack, gl, n)), n)

(* Mutant: the loop ends before the scope of the parameters.               *)
variableTypeInBlocks(stack, gl, n) ==
  IF Holding(stack, n) \ {1} # {} THEN stack[Innermost(Holding(stack, n) \ {1})][n].type
  ELSE IF n \in DOMAIN gl THEN gl[n].type
  ELSE Builtin("INT32")

(* type_precision looks at the globals after the loop.                     *)
variableType(stack, gl, n) ==
  IF Holding(stack, n) # {} THEN stack[Innermost(Holding(stack, n))][n].type
  ELSE IF n \in DOMAIN gl THEN gl[n].type
  ELSE Builtin("INT32")

Literal(t)    == [node |-> "literal", type |-> t, name |-> ""]
Access(n)     == [node |-> "access", type |-> Builtin("VOID"), name |-> n]
NoExpression  == [node |-> "none", type |-> Builtin("VOID"), name |-> ""]
Expressions   == {Literal(t) : t \in Literals} \cup {Access(n) : n \in Names}
Initialisers  == Expressions \cup {NoExpression}

type_precision(stack, gl, e) ==
  IF e.node = "literal" THEN e.type ELSE variableType(stack, gl, e.name)

-----------------------------------------------------------------------------
(***************************************************************************)
(* Errors.                                                                 *)
(***************************************************************************)
One(condition) == IF condition THEN 1 ELSE 0

(* codeSemanticAnalyses of an expression.                                  *)
AccessErrors(stack, gl, e) ==
  One(e.node = "access" /\ ~accessFound(stack, gl, e.name))

(* An expression is analysed and converted to the type to.                 *)
ConversionErrors(stack, gl, e, to) ==
  IF e.node = "none" THEN 0
  ELSE AccessErrors(stack, gl, e)
         + One(TypeError(type_precision(stack, gl, e), to, EnumBacking))

CountErrors(n) ==
  /\ errorNumber' = errorNumber + n
  /\ errorNumber + n <= MaxErrors

-----------------------------------------------------------------------------
(***************************************************************************)
(* The frame.                                                              *)
(***************************************************************************)

(* Mutant: the branch for enums is never taken, as it is for parameters.   *)
LocalTypeDeclared(t) == t

(* A local of an enum type becomes one of its backing type.                *)
LocalType(t) == IF t.kind = "ENUM" THEN Builtin(EnumBacking[t.name]) ELSE t

VariableSize(t) ==
  IF t.kind = "STRUCT" THEN StructInfo[t.name].size ELSE SizeT(t.kind)

VariableAlignment(t) ==
  IF t.kind = "STRUCT" THEN StructInfo[t.name].alignment ELSE SizeT(t.kind)

(* History: the sums below are those of the integers.                      *)
Fits(at, t) ==
  /\ VariableAlignment(t) \in Alignments
  /\ NoWrap(at, VariableAlignment(t), VariableSize(t))

CurrentScope == scopeStack[Len(scopeStack)]

WithCurrentScope(scope) == [scopeStack EXCEPT ![Len(scopeStack)] = scope]
PushScope               == scopeStack' = Append(scopeStack, EmptyScope)
PopScope                == scopeStack' = SubSeq(scopeStack, 1, Len(scopeStack) - 1)

-----------------------------------------------------------------------------
Init ==
  /\ WalkInit
  /\ functions = <<>>
  /\ globals = <<>>
  /\ scopeStack = <<>>
  /\ currentFunc = NoFunction
  /\ offset = 0
  /\ paramOffset = 0
  /\ locals = <<>>
  /\ errorNumber = 0
  /\ exact = TRUE
  /\ crashed = FALSE

(* A struct or an enum declaration: StructLayout has the tables it fills.  *)
DeclareType ==
  /\ VisitTopLevel
  /\ UNCHANGED <<tables, frame, scopeStack, currentFunc, errorNumber, crashed>>

(* VariableDeclareNode at file level.  No scope is open, so an initialiser *)
(* that reads a variable is always an error.                               *)
DeclareGlobal(n, t, init) ==
  /\ VisitTopLevel
  /\ globals' = emplace(globals, n, SymboleInfo(t, 0, TRUE))
  /\ CountErrors(ConversionErrors(scopeStack, globals', init, t))
  /\ UNCHANGED <<functions, frame, scopeStack, currentFunc, crashed>>

(* FuncStmtNode, up to its parameters.  The first pass has put the first   *)
(* function of every name into functions, and currentFunc is that one,     *)
(* whatever this one's return type is.                                     *)
BeginFunction(f, retType) ==
  /\ OpenFunction
  /\ functions' = emplace(functions, f, retType)
  /\ currentFunc' = [returns |-> functions'[f], declared |-> retType]
  /\ scopeStack' = <<EmptyScope>>
  /\ paramOffset' = 0
  /\ UNCHANGED <<globals, offset, locals, errorNumber, exact, crashed>>

(* A function without a body: hasReturn is called on its null code.        *)
Prototype(f, retType) ==
  /\ VisitTopLevel
  /\ functions' = emplace(functions, f, retType)
  /\ crashed' = TRUE
  /\ UNCHANGED <<globals, frame, scopeStack, currentFunc, errorNumber>>

InParameters == open # <<>> /\ Top.node = "func" /\ ~Top.full

(* Mutant: every parameter is put at the start.                            *)
AddParameterAtZero(n, t, init) ==
  /\ InParameters
  /\ nodes < MaxNodes
  /\ Count
  /\ scopeStack' = WithCurrentScope(emplace(CurrentScope, n, SymboleInfo(t, 0, FALSE)))
  /\ paramOffset' = (paramOffset + VariableSize(t)) % Word
  /\ exact' = (exact /\ Fits(paramOffset, t))
  /\ CountErrors(ConversionErrors(scopeStack', globals, init, t))
  /\ UNCHANGED <<open, tables, currentFunc, offset, locals, crashed>>

(* One turn of the loop over the parameters.  A second parameter of a name *)
(* is given room and no entry.                                             *)
AddParameter(n, t, init) ==
  /\ InParameters
  /\ nodes < MaxNodes
  /\ Count
  /\ scopeStack' = WithCurrentScope(emplace(CurrentScope, n,
                                            SymboleInfo(t, paramOffset, FALSE)))
  /\ paramOffset' = (paramOffset + VariableSize(t)) % Word
  /\ exact' = (exact /\ Fits(paramOffset, t))
  /\ CountErrors(ConversionErrors(scopeStack', globals, init, t))
  /\ UNCHANGED <<open, tables, currentFunc, offset, locals, crashed>>

(* Mutant: a second declaration in a scope is not reported.                *)
DeclareLocalAgain(n, declared, init) ==
  LET t    == LocalType(declared)
      info == SymboleInfo(t, offset, FALSE)
      end  == (offset + VariableSize(t)) % Word
  IN  /\ VisitStatement(FALSE)
      /\ scopeStack' = WithCurrentScope(emplace(CurrentScope, n, info))
      /\ offset' = AlignUp(end, VariableAlignment(t))
      /\ exact' = (exact /\ Fits(offset, t))
      /\ locals' = Append(locals,
                          [type |-> t,
                           offset |-> scopeStack'[Len(scopeStack)][n].stackOffset])
      /\ CountErrors(ConversionErrors(scopeStack', globals, init, t))
      /\ UNCHANGED <<tables, currentFunc, paramOffset, crashed>>

(* VariableDeclareNode in a function.  The name is visible to its own      *)
(* initialiser.                                                            *)
DeclareLocal(n, declared, init) ==
  LET t    == LocalType(declared)
      info == SymboleInfo(t, offset, FALSE)
      end  == (offset + VariableSize(t)) % Word
  IN  /\ VisitStatement(FALSE)
      /\ scopeStack' = WithCurrentScope(emplace(CurrentScope, n, info))
      /\ offset' = AlignUp(end, VariableAlignment(t))
      /\ exact' = (exact /\ Fits(offset, t))
      /\ locals' = Append(locals,
                          [type |-> t,
                           offset |-> scopeStack'[Len(scopeStack)][n].stackOffset])
      /\ CountErrors(One(n \in DOMAIN CurrentScope)
                       + ConversionErrors(scopeStack', globals, init, t))
      /\ UNCHANGED <<tables, currentFunc, paramOffset, crashed>>

(* VariableModNode with a variable on the left.                            *)
Assign(n, e) ==
  /\ VisitStatement(FALSE)
  /\ CountErrors(AccessErrors(scopeStack, globals, Access(n))
                   + ConversionErrors(scopeStack, globals, e,
                                      resolveVariable(scopeStack, globals, n).type))
  /\ UNCHANGED <<tables, frame, scopeStack, currentFunc, crashed>>

Return(e) ==
  /\ VisitStatement(TRUE)
  /\ CountErrors(ConversionErrors(scopeStack, globals, e, currentFunc.returns))
  /\ UNCHANGED <<tables, frame, scopeStack, currentFunc, crashed>>

(* Any other statement (inline assembly, a call, a write): no table and no *)
(* offset depends on it.                                                   *)
OtherStatement ==
  /\ VisitStatement(FALSE)
  /\ UNCHANGED <<tables, frame, scopeStack, currentFunc, errorNumber, crashed>>

BeginBlock ==
  /\ OpenBlock
  /\ PushScope
  /\ UNCHANGED <<tables, frame, currentFunc, errorNumber, crashed>>

EndBlock ==
  /\ CloseBlock
  /\ PopScope
  /\ UNCHANGED <<tables, frame, currentFunc, errorNumber, crashed>>

(* IfStmtNode: the condition, converted to int32, then a scope.            *)
BeginIf(hasElse, condition) ==
  /\ OpenIf(hasElse)
  /\ CountErrors(ConversionErrors(scopeStack, globals, condition, Builtin("INT32")))
  /\ PushScope
  /\ UNCHANGED <<tables, frame, currentFunc, crashed>>

(* The scope of the first branch is closed and one for the second opened.  *)
BeginElse ==
  /\ OpenElse
  /\ scopeStack' = WithCurrentScope(EmptyScope)
  /\ UNCHANGED <<tables, frame, currentFunc, errorNumber, crashed>>

EndIf ==
  /\ CloseIf
  /\ PopScope
  /\ UNCHANGED <<tables, frame, currentFunc, errorNumber, crashed>>

(* Mutant: the next function's frame starts where this one's ended.        *)
EndFunctionKeepsOffset ==
  /\ CloseFunction
  /\ CountErrors(One(currentFunc.declared.kind # "VOID" /\ ~Top.has))
  /\ PopScope
  /\ locals' = <<>>
  /\ exact' = TRUE
  /\ UNCHANGED <<tables, currentFunc, offset, paramOffset, crashed>>

(* The end of FuncStmtNode, with the check that a value is returned.       *)
EndFunction ==
  /\ CloseFunction
  /\ CountErrors(One(currentFunc.declared.kind # "VOID" /\ ~Top.has))
  /\ PopScope
  /\ offset' = 0
  /\ locals' = <<>>
  /\ exact' = TRUE
  /\ UNCHANGED <<tables, currentFunc, paramOffset, crashed>>

Step ==
  \/ DeclareType
  \/ \E n \in Names, t \in Types, init \in Initialisers : DeclareGlobal(n, t, init)
  \/ \E f \in FuncNames, t \in Types \cup {Builtin("VOID")} :
       BeginFunction(f, t) \/ Prototype(f, t)
  \/ \E n \in Names, t \in Types, init \in Initialisers :
       AddParameter(n, t, init) \/ DeclareLocal(n, t, init)
  \/ \E n \in Names, e \in Expressions : Assign(n, e)
  \/ \E e \in Expressions : Return(e)
  \/ OtherStatement
  \/ BeginBlock
  \/ EndBlock
  \/ \E hasElse \in BOOLEAN, e \in Expressions : BeginIf(hasElse, e)
  \/ BeginElse
  \/ EndIf
  \/ EndFunction

Done == crashed \/ WalkDone

(* The pass is over, or stopped at the bound on errors.                    *)
Stop == /\ Done \/ errorNumber = MaxErrors
        /\ UNCHANGED vars

Next == (~crashed /\ Step) \/ Stop

Spec == Init /\ [][Next]_vars

-----------------------------------------------------------------------------
(***************************************************************************)
(* Properties.                                                             *)
(***************************************************************************)
TypeSet == [kind : Kinds, name : {""} \cup DOMAIN StructInfo \cup DOMAIN EnumBacking]

Infos == [type : TypeSet, stackOffset : Words, isGlobal : BOOLEAN]

IsTable(table) == DOMAIN table \subseteq Names /\ table \in [DOMAIN table -> Infos]

(* What a local can be once it has room in the frame: its size is no       *)
(* sentinel of an enum.                                                    *)
LocalTypeSet == {t \in TypeSet : t.kind # "ENUM"}

(* Every variable has its type, and a local of an enum type was given its  *)
(* backing type before it was given room (VariableDeclareNode).            *)
TypeOK ==
  /\ open \in Seq(Frames)
  /\ nodes \in 0..MaxNodes
  /\ DOMAIN functions \subseteq FuncNames
  /\ \A f \in DOMAIN functions : functions[f] \in TypeSet
  /\ IsTable(globals)
  /\ \A d \in DOMAIN scopeStack : IsTable(scopeStack[d])
  /\ currentFunc \in [returns : TypeSet, declared : TypeSet]
  /\ offset \in Words
  /\ paramOffset \in Words
  /\ locals \in Seq([type : LocalTypeSet, offset : Words])
  /\ errorNumber \in 0..MaxErrors
  /\ exact \in BOOLEAN
  /\ crashed \in BOOLEAN

(* The locals of a function that was accepted so far do not overlap and    *)
(* lie below the next one, also after the scopes of some of them were      *)
(* closed: offsets are not given back (VariableDeclareNode).  A name       *)
(* declared twice in a scope would share an offset: the error for it is    *)
(* what the premise leaves out.                                            *)
LocalsDisjoint ==
  errorNumber = 0 /\ exact =>
    \A i \in DOMAIN locals :
      /\ locals[i].offset + VariableSize(locals[i].type) <= offset
      /\ \A j \in DOMAIN locals :
           i < j => locals[i].offset + VariableSize(locals[i].type) <= locals[j].offset

(* Parameters do not overlap, also when one name is used twice.            *)
ParametersDisjoint ==
  InParameters /\ exact =>
    \A m, n \in DOMAIN CurrentScope :
      LET p == CurrentScope[m]
          q == CurrentScope[n]
      IN  m # n => \/ p.stackOffset + VariableSize(p.type) <= q.stackOffset
                   \/ q.stackOffset + VariableSize(q.type) <= p.stackOffset

(* A function starts with the scopes and the frame of the ones before it   *)
(* gone, and every scope the walk opened is on the stack until it is left. *)
CleanStart ==
  /\ Len(scopeStack) = Len(open)
  /\ open = <<>> => offset = 0 /\ locals = <<>> /\ exact

(* A name bound once, in a scope or as a global, means the same to all     *)
(* three lookups.                                                          *)
BoundOnce(n) ==
  \/ n \in DOMAIN globals /\ Holding(scopeStack, n) = {} /\ scopeStack # <<>>
  \/ n \notin DOMAIN globals /\ \E d \in DOMAIN scopeStack : Holding(scopeStack, n) = {d}

LookupsAgree ==
  \A n \in Names : BoundOnce(n) =>
    LET info == accessInfo(scopeStack, globals, n)
    IN  /\ info = resolveVariable(scopeStack, globals, n)
        /\ info.type = variableType(scopeStack, globals, n)

(* A binding keeps its type and its offset as long as its scope is open,   *)
(* whatever is declared meanwhile: the code already emitted for the name   *)
(* stays right (emplace).  Only the innermost scope can be closed by a     *)
(* step, and then only by one that changes the statement on top.           *)
ScopeClosed(d) ==
  d = Len(scopeStack) /\ (Len(open') < d \/ open'[d].node # open[d].node)

BindingsKept ==
  /\ \A d \in DOMAIN scopeStack : ~ScopeClosed(d) =>
       /\ d \in DOMAIN scopeStack'
       /\ \A n \in DOMAIN scopeStack[d] :
            n \in DOMAIN scopeStack'[d] /\ scopeStack'[d][n] = scopeStack[d][n]
  /\ \A n \in DOMAIN globals : n \in DOMAIN globals' /\ globals'[n] = globals[n]

BindingsStable == [][BindingsKept]_vars

(* What the README's "Strong static type system" says of the smallest      *)
(* expression: the variable whose slot an access reads has the type the    *)
(* access was checked with.  The code does not satisfy it when a name is   *)
(* bound twice.                                                            *)
ReadsHaveCheckedType ==
  \A n \in Names : errorNumber = 0 /\ accessFound(scopeStack, globals, n) =>
    accessInfo(scopeStack, globals, n).type = variableType(scopeStack, globals, n)

=============================================================================
