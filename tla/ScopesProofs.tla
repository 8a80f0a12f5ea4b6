---------------------------- MODULE ScopesProofs ----------------------------
(***************************************************************************)
(* Proofs about the symbol tables and frames of the semantic analyser, for *)
(* programs of any size, every set of names, types, structs and enums, and *)
(* every word.                                                             *)
(***************************************************************************)
EXTENDS Scopes, SourceWalkProofs

(* A remainder by the word's modulus is a word, and a word is its own.     *)
LEMMA ModWord ==
  ASSUME NEW y \in Nat
  PROVE  /\ y % Word \in Words
         /\ y \in Words => y % Word = y
BY WordAssumption DEF Words

(* Rounding up gives a word whatever the alignment, and by that of a       *)
(* scalar one that is not smaller unless the sum wraps.                    *)
LEMMA AlignUpFacts ==
  ASSUME NEW x \in Words, NEW a \in AllAlignments
  PROVE  /\ AlignUp(x, a) \in Words
         /\ a \in Alignments /\ x + a - 1 < Word => x <= AlignUp(x, a)
<1>1. x + a - 1 \in Nat BY WordAssumption DEF AllAlignments, Alignments, Words
<1>2. PICK z \in Words : z = (x + a - 1) % Word BY <1>1, ModWord
<1>3. z % 2 \in Words /\ 2 * ((z \div 2) % 2) \in Words BY WordAssumption DEF Words
<1>4. ASSUME a \in Alignments PROVE z % a \in 0..a-1 /\ z - (z % a) \in Words
  <2>1. CASE a = 1 BY <2>1, WordAssumption DEF Words
  <2>2. CASE a = 2 BY <2>2, WordAssumption DEF Words
  <2>3. CASE a = 4 BY <2>3, WordAssumption DEF Words
  <2>4. CASE a = 8 BY <2>4, WordAssumption DEF Words
  <2> QED BY <1>4, <2>1, <2>2, <2>3, <2>4 DEF Alignments
<1>5. AlignUp(x, a) \in Words BY <1>2, <1>3, <1>4 DEF AlignUp, AllAlignments
<1>6. ASSUME a \in Alignments, x + a - 1 < Word PROVE x <= AlignUp(x, a)
  <2>1. a # Word - 1 /\ a # Word - 2 BY <1>6, WordAssumption DEF Alignments
  <2>2. AlignUp(x, a) = z - (z % a) BY <1>2, <2>1 DEF AlignUp
  <2>3. x + a - 1 \in Words BY <1>1, <1>6, WordAssumption DEF Words
  <2>4. z = x + a - 1 BY <1>2, <2>3, ModWord DEF Words
  <2>5. PICK r \in 0..a-1 : r = z % a BY <1>4, <1>6
  <2>6. a \in Nat /\ x \in Nat BY <1>6 DEF Alignments, Words
  <2>7. x <= z - r BY <2>4, <2>5, <2>6
  <2> QED BY <2>2, <2>5, <2>7
<1> QED BY <1>5, <1>6

(***************************************************************************)
(* The inductive invariant.                                                *)
(*                                                                         *)
(* TypeOK says of every table that it is one; Tables is the set of them,   *)
(* so that a stack of scopes is a sequence over a set.                     *)
(***************************************************************************)
Tables == UNION {[D -> Infos] : D \in SUBSET Names}

Typed == TypeOK /\ globals \in Tables /\ scopeStack \in Seq(Tables)

(* The sizes that offsets are compared with are numbers.                   *)
SizesKnown == \A i \in DOMAIN locals : VariableSize(locals[i].type) \in Words

(* The parameters so far end by paramOffset and do not overlap.            *)
Ends(info, bound) == info.stackOffset + VariableSize(info.type) <= bound

ParametersPlaced ==
  InParameters =>
    \A m \in DOMAIN CurrentScope :
      /\ VariableSize(CurrentScope[m].type) \in Words
      /\ exact =>
           /\ Ends(CurrentScope[m], paramOffset)
           /\ \A n \in DOMAIN CurrentScope : m # n =>
                \/ Ends(CurrentScope[m], CurrentScope[n].stackOffset)
                \/ Ends(CurrentScope[n], CurrentScope[m].stackOffset)

IInv == /\ Typed /\ WalkShape /\ CleanStart
        /\ SizesKnown /\ LocalsDisjoint /\ ParametersPlaced

-----------------------------------------------------------------------------
(***************************************************************************)
(* Tables.                                                                 *)
(***************************************************************************)
LEMMA TableFacts ==
  ASSUME NEW table
  PROVE  table \in Tables <=> IsTable(table)
BY DEF Tables, IsTable

LEMMA EmptyScopeTable == EmptyScope \in Tables /\ DOMAIN EmptyScope = {}
<1>1. DOMAIN EmptyScope = {} /\ EmptyScope = [x \in {} |-> x]
  BY DEF EmptyScope
<1>2. IsTable(EmptyScope)
  BY <1>1 DEF IsTable
<1> QED BY <1>1, <1>2, TableFacts

(* What is in a table stays, and a new name is given the new entry.        *)
LEMMA EmplaceFacts ==
  ASSUME NEW table, NEW n, NEW info
  PROVE  /\ DOMAIN emplace(table, n, info) = DOMAIN table \cup {n}
         /\ \A m \in DOMAIN table : emplace(table, n, info)[m] = table[m]
         /\ n \notin DOMAIN table => emplace(table, n, info)[n] = info
BY DEF emplace

LEMMA EmplaceTable ==
  ASSUME NEW table \in Tables, NEW n \in Names, NEW info \in Infos
  PROVE  emplace(table, n, info) \in Tables
<1>1. IsTable(table) BY TableFacts
<1>2. IsTable(emplace(table, n, info))
  BY <1>1 DEF IsTable, emplace
<1> QED BY <1>2, TableFacts

(* What WithCurrentScope does to the stack.                                *)
LEMMA WithCurrentScopeFacts ==
  ASSUME scopeStack \in Seq(Tables), Len(scopeStack) > 0, NEW scope \in Tables
  PROVE  /\ WithCurrentScope(scope) \in Seq(Tables)
         /\ Len(WithCurrentScope(scope)) = Len(scopeStack)
         /\ WithCurrentScope(scope)[Len(scopeStack)] = scope
         /\ \A d \in 1..Len(scopeStack)-1 : WithCurrentScope(scope)[d] = scopeStack[d]
         /\ CurrentScope \in Tables
<1>1. Len(scopeStack) \in Nat \ {0} BY LenProperties
<1> QED BY <1>1 DEF WithCurrentScope, CurrentScope

-----------------------------------------------------------------------------
(***************************************************************************)
(* Errors.                                                                 *)
(***************************************************************************)
LEMMA ErrorsNat ==
  ASSUME NEW stack, NEW gl, NEW e, NEW to, NEW condition
  PROVE  /\ One(condition) \in Nat
         /\ One(condition) = 0 => ~condition
         /\ AccessErrors(stack, gl, e) \in Nat
         /\ ConversionErrors(stack, gl, e, to) \in Nat
<1>1. \A c : One(c) \in Nat BY DEF One
<1>2. One(condition) = 0 => ~condition BY DEF One
<1>3. AccessErrors(stack, gl, e) \in Nat BY <1>1 DEF AccessErrors
<1>4. ConversionErrors(stack, gl, e, to) \in Nat
  BY <1>1, <1>3 DEF ConversionErrors
<1> QED BY <1>1, <1>2, <1>3, <1>4

LEMMA CountErrorsFacts ==
  ASSUME errorNumber \in 0..MaxErrors, NEW n \in Nat, CountErrors(n)
  PROVE  /\ errorNumber' \in 0..MaxErrors
         /\ errorNumber' = 0 => errorNumber = 0 /\ n = 0
BY ScopesAssumption DEF CountErrors

-----------------------------------------------------------------------------
(***************************************************************************)
(* Types.                                                                  *)
(***************************************************************************)

(* A type that has a size: a local's, or that of anything declared.        *)
Known(t) == /\ t \in TypeSet
            /\ VariableSize(t) \in Words
            /\ VariableAlignment(t) \in AllAlignments

LEMMA BuiltinKnown ==
  ASSUME NEW k \in Kinds \ {"STRUCT"}
  PROVE  Known(Builtin(k))
<1>1. SizeT(k) \in Words /\ SizeT(k) \in AllAlignments
  BY WordAssumption DEF SizeT, typeSize, Kinds, Words, AllAlignments, Alignments
<1> QED BY <1>1 DEF Known, Builtin, TypeSet, VariableSize, VariableAlignment

LEMMA TypesKnown ==
  ASSUME NEW t \in Types
  PROVE  Known(t) /\ Known(LocalType(t)) /\ LocalType(t) \in LocalTypeSet
<1>1. CASE t.kind \in Kinds \ {"STRUCT", "ENUM"} /\ t = Builtin(t.kind)
  <2>1. LocalType(t) = t /\ Known(t) BY <1>1, BuiltinKnown DEF LocalType
  <2> QED BY <1>1, <2>1 DEF Known, LocalTypeSet
<1>2. CASE /\ t.kind = "STRUCT" /\ t.name \in DOMAIN StructInfo
           /\ t = [kind |-> "STRUCT", name |-> t.name]
  <2>1. LocalType(t) = t BY <1>2 DEF LocalType
  <2>2. t \in TypeSet BY <1>2 DEF TypeSet, Kinds
  <2>3. VariableSize(t) \in Words /\ VariableAlignment(t) \in AllAlignments
    BY <1>2, ScopesAssumption DEF VariableSize, VariableAlignment, Words
  <2> QED BY <1>2, <2>1, <2>2, <2>3 DEF Known, LocalTypeSet
<1>3. CASE /\ t.kind = "ENUM" /\ t.name \in DOMAIN EnumBacking
           /\ t = [kind |-> "ENUM", name |-> t.name]
  <2>1. /\ EnumBacking[t.name] \in Kinds \ {"STRUCT", "ENUM"}
        /\ LocalType(t) = Builtin(EnumBacking[t.name])
    BY <1>3, ScopesAssumption DEF LocalType, Kinds
  <2>2. t \in TypeSet BY <1>3 DEF TypeSet, Kinds
  <2>3. /\ VariableSize(t) = VariableSize(Builtin("ENUM"))
        /\ VariableAlignment(t) = VariableAlignment(Builtin("ENUM"))
    BY <1>3 DEF VariableSize, VariableAlignment, Builtin
  <2>4. Known(Builtin("ENUM")) BY BuiltinKnown DEF Kinds
  <2>5. Known(LocalType(t)) BY <2>1, BuiltinKnown
  <2>6. LocalType(t) \in LocalTypeSet
    <3>1. \A k : Builtin(k).kind = k BY DEF Builtin
    <3> QED BY <2>1, <2>5, <3>1 DEF Known, LocalTypeSet
  <2> QED BY <2>2, <2>3, <2>4, <2>5, <2>6 DEF Known
<1> QED BY <1>1, <1>2, <1>3, ScopesAssumption

LEMMA VoidType == Builtin("VOID") \in TypeSet
BY DEF Builtin, TypeSet, Kinds

-----------------------------------------------------------------------------
(***************************************************************************)
(* The invariant holds in the initial state and is kept by every step.     *)
(***************************************************************************)
LEMMA InitInv == Init => IInv
<1> SUFFICES ASSUME Init PROVE IInv
  OBVIOUS
<1>1. WalkTyped /\ WalkShape
  BY WalkInitInv DEF Init, WalkInv
<1>2. globals \in Tables /\ IsTable(globals)
  <2>1. globals = EmptyScope BY DEF Init, EmptyScope
  <2> QED BY <2>1, EmptyScopeTable, TableFacts
<1>3. scopeStack = <<>> /\ scopeStack \in Seq(Tables) /\ open = <<>> /\ locals = <<>>
  BY DEF Init, WalkInit
<1>4. TypeOK
  <2>1. functions = <<>> /\ DOMAIN functions = {}
    BY DEF Init
  <2>2. currentFunc \in [returns : TypeSet, declared : TypeSet]
    BY VoidType DEF Init, NoFunction
  <2>3. offset \in Words /\ paramOffset \in Words /\ errorNumber \in 0..MaxErrors
    BY WordAssumption, ScopesAssumption DEF Init, Words
  <2>4. exact \in BOOLEAN /\ crashed \in BOOLEAN
    BY DEF Init
  <2> QED BY <1>1, <1>2, <1>3, <2>1, <2>2, <2>3, <2>4 DEF TypeOK, WalkTyped
<1>5. CleanStart /\ SizesKnown /\ LocalsDisjoint /\ ParametersPlaced
  BY <1>3 DEF Init, CleanStart, SizesKnown, LocalsDisjoint, ParametersPlaced, InParameters
<1> QED BY <1>1, <1>2, <1>3, <1>4, <1>5 DEF IInv, Typed

(* The parts of the invariant that a step which leaves the frame alone has *)
(* to see to.                                                              *)
TablesTyped ==
  /\ DOMAIN functions \subseteq FuncNames
  /\ \A f \in DOMAIN functions : functions[f] \in TypeSet
  /\ globals \in Tables
  /\ scopeStack \in Seq(Tables)
  /\ currentFunc \in [returns : TypeSet, declared : TypeSet]
  /\ errorNumber \in 0..MaxErrors
  /\ crashed \in BOOLEAN

LEMMA TypedNext ==
  ASSUME WalkTyped', TablesTyped', offset' \in Words, paramOffset' \in Words,
         locals' \in Seq([type : LocalTypeSet, offset : Words]), exact' \in BOOLEAN
  PROVE  Typed'
<1>1. IsTable(globals') BY TableFacts DEF TablesTyped
<1>2. \A d \in DOMAIN scopeStack' : scopeStack'[d] \in Tables
  BY LenProperties, ElementOfSeq DEF TablesTyped
<1>3. \A d \in DOMAIN scopeStack' : IsTable(scopeStack'[d])
  BY <1>2, TableFacts
<1> QED BY <1>1, <1>3 DEF Typed, TypeOK, TablesTyped, WalkTyped, IsTable

LEMMA FrameUnchanged ==
  ASSUME IInv, WalkInv', TablesTyped', ~InParameters', UNCHANGED frame,
         Len(scopeStack') = Len(open'), open' = <<>> => open = <<>>,
         errorNumber' = 0 => errorNumber = 0
  PROVE  IInv'
<1>1. /\ offset' = offset /\ paramOffset' = paramOffset
      /\ locals' = locals /\ exact' = exact
  BY DEF frame
<1>2. Typed'
  BY <1>1, TypedNext DEF IInv, Typed, TypeOK, WalkInv
<1>3. WalkShape' BY DEF WalkInv
<1>4. CleanStart' BY <1>1 DEF IInv, CleanStart
<1>5. SizesKnown' BY <1>1 DEF IInv, SizesKnown, VariableSize
<1>6. LocalsDisjoint' BY <1>1 DEF IInv, LocalsDisjoint, VariableSize
<1>7. ParametersPlaced' BY DEF ParametersPlaced
<1> QED BY <1>2, <1>3, <1>4, <1>5, <1>6, <1>7 DEF IInv

(* What the invariant says before a step, in the form the steps use.       *)
LEMMA Before ==
  ASSUME IInv
  PROVE  /\ WalkInv
         /\ TablesTyped
         /\ Len(scopeStack) = Len(open)
         /\ scopeStack \in Seq(Tables)
         /\ Len(scopeStack) \in Nat
         /\ open \in Seq(Frames)
         /\ errorNumber \in 0..MaxErrors
<1>1. TablesTyped BY DEF IInv, Typed, TypeOK, TablesTyped
<1>2. WalkInv BY DEF IInv, Typed, TypeOK, WalkInv, WalkTyped
<1>3. Len(scopeStack) = Len(open) BY DEF IInv, CleanStart
<1> QED BY <1>1, <1>2, <1>3, LenProperties DEF TablesTyped, WalkInv, WalkTyped

(* Declarations at file level.                                             *)
LEMMA DeclareTypeStep == ASSUME IInv, DeclareType PROVE IInv'
<1>1. WalkInv' /\ open' = <<>> /\ open = <<>>
  BY VisitTopLevelWalk, Before DEF DeclareType
<1>2. /\ UNCHANGED <<tables, frame, scopeStack, currentFunc, errorNumber, crashed>>
      /\ ~InParameters'
  BY <1>1 DEF DeclareType, InParameters
<1>3. TablesTyped'
  BY <1>2, Before DEF TablesTyped, tables
<1> QED BY <1>1, <1>2, <1>3, Before, FrameUnchanged

LEMMA DeclareGlobalStep ==
  ASSUME IInv, NEW n \in Names, NEW t \in Types, NEW init, DeclareGlobal(n, t, init)
  PROVE  IInv'
<1>1. WalkInv' /\ open' = <<>> /\ open = <<>>
  BY VisitTopLevelWalk, Before DEF DeclareGlobal
<1>2. /\ UNCHANGED <<functions, frame, scopeStack, currentFunc, crashed>>
      /\ ~InParameters'
  BY <1>1 DEF DeclareGlobal, InParameters
<1>3. SymboleInfo(t, 0, TRUE) \in Infos
  BY TypesKnown, WordAssumption DEF SymboleInfo, Infos, Known, Words
<1>4. globals' \in Tables
  BY <1>3, Before, EmplaceTable DEF DeclareGlobal, TablesTyped
<1>5. errorNumber' \in 0..MaxErrors /\ (errorNumber' = 0 => errorNumber = 0)
  BY Before, ErrorsNat, CountErrorsFacts DEF DeclareGlobal
<1>6. TablesTyped'
  BY <1>2, <1>4, <1>5, Before DEF TablesTyped
<1> QED BY <1>1, <1>2, <1>5, <1>6, Before, FrameUnchanged

(* The table of functions.                                                 *)
LEMMA FunctionsTyped ==
  ASSUME TablesTyped, NEW f \in FuncNames, NEW retType \in TypeSet,
         functions' = emplace(functions, f, retType)
  PROVE  /\ DOMAIN functions' \subseteq FuncNames
         /\ \A g \in DOMAIN functions' : functions'[g] \in TypeSet
         /\ f \in DOMAIN functions'
BY DEF TablesTyped, emplace

LEMMA ReturnTypes ==
  ASSUME NEW t \in Types \cup {Builtin("VOID")}
  PROVE  t \in TypeSet
BY TypesKnown, VoidType DEF Known

LEMMA PrototypeStep ==
  ASSUME IInv, NEW f \in FuncNames, NEW t \in Types \cup {Builtin("VOID")},
         Prototype(f, t)
  PROVE  IInv'
<1>1. WalkInv' /\ open' = <<>> /\ open = <<>>
  BY VisitTopLevelWalk, Before DEF Prototype
<1>2. /\ UNCHANGED <<globals, frame, scopeStack, currentFunc, errorNumber>>
      /\ crashed' \in BOOLEAN
      /\ ~InParameters'
  BY <1>1 DEF Prototype, InParameters
<1>3. TablesTyped'
  BY <1>2, Before, FunctionsTyped, ReturnTypes DEF TablesTyped, Prototype
<1> QED BY <1>1, <1>2, <1>3, Before, FrameUnchanged

(* Statements.                                                             *)
LEMMA StatementWalk ==
  ASSUME IInv, NEW isReturn \in BOOLEAN, VisitStatement(isReturn)
  PROVE  /\ WalkInv' /\ ~InParameters'
         /\ Len(open') = Len(open) /\ open # <<>> /\ open' # <<>>
         /\ Len(open) \in Nat \ {0}
<1>1. /\ WalkInv' /\ open # <<>> /\ Len(open') = Len(open)
      /\ open'[Len(open)].node = "func" => open'[Len(open)].full
  BY Before, VisitStatementWalk
<1>2. Len(open) \in Nat \ {0}
  BY <1>1, Before, OuterFacts
<1>3. ~InParameters'
  BY <1>1 DEF InParameters, Top
<1>4. open' # <<>> BY <1>1, <1>2
<1> QED BY <1>1, <1>2, <1>3, <1>4

LEMMA PlainStep ==
  ASSUME IInv, NEW isReturn \in BOOLEAN, VisitStatement(isReturn),
         NEW n \in Nat, CountErrors(n),
         UNCHANGED <<tables, frame, scopeStack, currentFunc, crashed>>
  PROVE  IInv'
<1>1. errorNumber' \in 0..MaxErrors /\ (errorNumber' = 0 => errorNumber = 0)
  BY Before, CountErrorsFacts
<1>2. TablesTyped'
  BY <1>1, Before DEF TablesTyped, tables
<1> QED BY <1>1, <1>2, StatementWalk, Before, FrameUnchanged

LEMMA AssignStep ==
  ASSUME IInv, NEW n, NEW e, Assign(n, e) PROVE IInv'
<1>1. AccessErrors(scopeStack, globals, Access(n))
        + ConversionErrors(scopeStack, globals, e,
                           resolveVariable(scopeStack, globals, n).type) \in Nat
  BY ErrorsNat
<1> QED BY <1>1, PlainStep DEF Assign

LEMMA ReturnStep ==
  ASSUME IInv, NEW e, Return(e) PROVE IInv'
<1>1. ConversionErrors(scopeStack, globals, e, currentFunc.returns) \in Nat
  BY ErrorsNat
<1> QED BY <1>1, PlainStep DEF Return

LEMMA OtherStatementStep ==
  ASSUME IInv, OtherStatement PROVE IInv'
<1>1. VisitStatement(FALSE)
      /\ UNCHANGED <<tables, frame, scopeStack, currentFunc, errorNumber, crashed>>
  BY DEF OtherStatement
<1>2. TablesTyped'
  BY <1>1, Before DEF TablesTyped, tables
<1> QED BY <1>1, <1>2, StatementWalk, Before, FrameUnchanged

(* Scopes.                                                                 *)
LEMMA PushFacts ==
  ASSUME scopeStack \in Seq(Tables), PushScope
  PROVE  /\ scopeStack' \in Seq(Tables) /\ Len(scopeStack') = Len(scopeStack) + 1
         /\ \A d \in 1..Len(scopeStack) : scopeStack'[d] = scopeStack[d]
BY EmptyScopeTable, LenProperties DEF PushScope

LEMMA PopFacts ==
  ASSUME scopeStack \in Seq(Tables), Len(scopeStack) > 0, PopScope
  PROVE  /\ scopeStack' \in Seq(Tables) /\ Len(scopeStack') = Len(scopeStack) - 1
         /\ \A d \in 1..Len(scopeStack)-1 : scopeStack'[d] = scopeStack[d]
<1>1. scopeStack # <<>> BY DEF PopScope
<1> QED BY <1>1, FrontFacts DEF PopScope

(* Opened inside another statement, a statement is not a function.         *)
LEMMA OpenedInside ==
  ASSUME IInv, WalkInv', open # <<>>, Len(open') = Len(open) + 1
  PROVE  ~InParameters' /\ open' # <<>> /\ Len(open') \in Nat
<1>1. Len(open) \in Nat \ {0} BY Before, OuterFacts
<1>2. open'[Len(open')].node # "func"
  BY <1>1 DEF WalkInv, WalkShape
<1> QED BY <1>1, <1>2 DEF InParameters, Top

(* Returned to, a statement has a part, so it is not waiting for a body.   *)
LEMMA ReturnedTo ==
  ASSUME IInv, WalkInv', Len(open) > 1, Len(open') = Len(open) - 1,
         \A i \in 1..Len(open)-1 : open'[i].full = open[i].full,
         SameUpTo(Len(open) - 1)
  PROVE  ~InParameters' /\ open' # <<>>
<1>1. Len(open) \in Nat BY Before, LenProperties
<1>2. open'[Len(open')].node = open[Len(open) - 1].node
      /\ open'[Len(open')].full = open[Len(open) - 1].full
  BY <1>1 DEF SameUpTo
<1>3. open[Len(open) - 1].node = "block" \/ open[Len(open) - 1].full
  BY <1>1, Before DEF WalkInv, WalkShape
<1> QED BY <1>1, <1>2, <1>3 DEF InParameters, Top

LEMMA BeginBlockStep == ASSUME IInv, BeginBlock PROVE IInv'
<1>1. WalkInv' /\ open # <<>> /\ Len(open') = Len(open) + 1
  BY Before, OpenBlockWalk DEF BeginBlock
<1>2. scopeStack' \in Seq(Tables) /\ Len(scopeStack') = Len(scopeStack) + 1
  BY Before, PushFacts DEF BeginBlock
<1>3. UNCHANGED <<tables, frame, currentFunc, errorNumber, crashed>>
  BY DEF BeginBlock
<1>4. TablesTyped' BY <1>2, <1>3, Before DEF TablesTyped, tables
<1> QED BY <1>1, <1>2, <1>3, <1>4, OpenedInside, Before, FrameUnchanged

LEMMA BeginIfStep ==
  ASSUME IInv, NEW hasElse \in BOOLEAN, NEW e, BeginIf(hasElse, e) PROVE IInv'
<1>1. WalkInv' /\ open # <<>> /\ Len(open') = Len(open) + 1
  BY Before, OpenIfWalk DEF BeginIf
<1>2. scopeStack' \in Seq(Tables) /\ Len(scopeStack') = Len(scopeStack) + 1
  BY Before, PushFacts DEF BeginIf
<1>3. UNCHANGED <<tables, frame, currentFunc, crashed>>
  BY DEF BeginIf
<1>4. errorNumber' \in 0..MaxErrors /\ (errorNumber' = 0 => errorNumber = 0)
  BY Before, ErrorsNat, CountErrorsFacts DEF BeginIf
<1>5. TablesTyped' BY <1>2, <1>3, <1>4, Before DEF TablesTyped, tables
<1> QED BY <1>1, <1>2, <1>3, <1>4, <1>5, OpenedInside, Before, FrameUnchanged

LEMMA BeginElseStep == ASSUME IInv, BeginElse PROVE IInv'
<1>1. /\ WalkInv' /\ Len(open) > 1 /\ Len(open') = Len(open)
      /\ open'[Len(open)].node = "else"
  BY Before, OpenElseWalk DEF BeginElse
<1>2. ~InParameters' /\ open' # <<>>
  BY <1>1, Before, LenProperties DEF InParameters, Top
<1>3. scopeStack' \in Seq(Tables) /\ Len(scopeStack') = Len(scopeStack)
  BY <1>1, Before, EmptyScopeTable, WithCurrentScopeFacts DEF BeginElse
<1>4. UNCHANGED <<tables, frame, currentFunc, errorNumber, crashed>>
  BY DEF BeginElse
<1>5. TablesTyped' BY <1>3, <1>4, Before DEF TablesTyped, tables
<1> QED BY <1>1, <1>2, <1>3, <1>4, <1>5, Before, FrameUnchanged

LEMMA EndBlockStep == ASSUME IInv, EndBlock PROVE IInv'
<1>1. /\ WalkInv' /\ Len(open) > 1 /\ Len(open') = Len(open) - 1
      /\ SameUpTo(Len(open) - 1)
      /\ \A i \in 1..Len(open)-1 : open'[i].full = open[i].full
  BY Before, CloseBlockWalk DEF EndBlock
<1>2. scopeStack' \in Seq(Tables) /\ Len(scopeStack') = Len(scopeStack) - 1
  BY <1>1, Before, PopFacts DEF EndBlock
<1>3. UNCHANGED <<tables, frame, currentFunc, errorNumber, crashed>>
  BY DEF EndBlock
<1>4. TablesTyped' BY <1>2, <1>3, Before DEF TablesTyped, tables
<1> QED BY <1>1, <1>2, <1>3, <1>4, ReturnedTo, Before, FrameUnchanged

LEMMA EndIfStep == ASSUME IInv, EndIf PROVE IInv'
<1>1. /\ WalkInv' /\ Len(open) > 1 /\ Len(open') = Len(open) - 1
      /\ SameUpTo(Len(open) - 1)
      /\ \A i \in 1..Len(open)-1 : open'[i].full = open[i].full
  BY Before, CloseIfWalk DEF EndIf
<1>2. scopeStack' \in Seq(Tables) /\ Len(scopeStack') = Len(scopeStack) - 1
  BY <1>1, Before, PopFacts DEF EndIf
<1>3. UNCHANGED <<tables, frame, currentFunc, errorNumber, crashed>>
  BY DEF EndIf
<1>4. TablesTyped' BY <1>2, <1>3, Before DEF TablesTyped, tables
<1> QED BY <1>1, <1>2, <1>3, <1>4, ReturnedTo, Before, FrameUnchanged

(* Functions.                                                              *)
LEMMA BeginFunctionStep ==
  ASSUME IInv, NEW f \in FuncNames, NEW t \in Types \cup {Builtin("VOID")},
         BeginFunction(f, t)
  PROVE  IInv'
<1>1. WalkInv' /\ open = <<>> /\ Len(open') = 1
  BY OpenFunctionWalk, Before DEF BeginFunction
<1>2. /\ scopeStack' = <<EmptyScope>> /\ paramOffset' = 0
      /\ UNCHANGED <<globals, offset, locals, errorNumber, exact, crashed>>
  BY DEF BeginFunction
<1>3. t \in TypeSet BY ReturnTypes
<1>4. /\ DOMAIN functions' \subseteq FuncNames
      /\ \A g \in DOMAIN functions' : functions'[g] \in TypeSet
      /\ f \in DOMAIN functions'
  BY <1>3, Before, FunctionsTyped DEF BeginFunction
<1>5. currentFunc' \in [returns : TypeSet, declared : TypeSet]
  BY <1>3, <1>4 DEF BeginFunction
<1>6. scopeStack' \in Seq(Tables) /\ Len(scopeStack') = 1 /\ scopeStack'[1] = EmptyScope
  BY <1>2, EmptyScopeTable
<1>7. TablesTyped'
  BY <1>2, <1>4, <1>5, <1>6, Before DEF TablesTyped
<1>8. 0 \in Words BY WordAssumption DEF Words
<1>9. Typed'
  BY <1>1, <1>2, <1>7, <1>8, TypedNext DEF IInv, Typed, TypeOK, WalkInv
<1>10. CleanStart' BY <1>1, <1>6 DEF CleanStart
<1>11. SizesKnown' BY <1>2 DEF IInv, SizesKnown, VariableSize
<1>12. LocalsDisjoint' BY <1>2 DEF IInv, LocalsDisjoint, VariableSize
<1>13. ParametersPlaced'
  BY <1>6, EmptyScopeTable DEF ParametersPlaced, CurrentScope
<1> QED BY <1>1, <1>9, <1>10, <1>11, <1>12, <1>13 DEF IInv, WalkInv

(* Without wrapping, what follows lies above: the room for a variable ends *)
(* where the sum says (Fits).                                              *)
LEMMA FitsFacts ==
  ASSUME NEW at \in Words, NEW t, Known(t), Fits(at, t)
  PROVE  /\ (at + VariableSize(t)) % Word = at + VariableSize(t)
         /\ at + VariableSize(t) \in Words
         /\ at + VariableSize(t) <= AlignUp(at + VariableSize(t), VariableAlignment(t))
<1> DEFINE size == VariableSize(t)
           a    == VariableAlignment(t)
<1>1. size \in Words /\ a \in Alignments /\ at + a - 1 + size < Word
  BY DEF Known, Fits, NoWrap
<1> HIDE DEF size, a
<1>2. at + size \in Words /\ at + size \in Nat /\ at + size + a - 1 + 0 < Word
  BY <1>1, WordAssumption DEF Words, Alignments
<1>3. (at + size) % Word = at + size
  BY <1>2, ModWord
<1>4. at + size <= AlignUp(at + size, a)
  <2>1. a \in AllAlignments BY <1>1 DEF AllAlignments
  <2>2. (at + size) + a - 1 < Word BY <1>1, <1>2 DEF Alignments, Words
  <2> QED BY <1>1, <1>2, <2>1, <2>2, AlignUpFacts
<1> QED BY <1>2, <1>3, <1>4 DEF size, a

LEMMA AddParameterStep ==
  ASSUME IInv, NEW n \in Names, NEW t \in Types, NEW init, AddParameter(n, t, init)
  PROVE  IInv'
<1> DEFINE info == SymboleInfo(t, paramOffset, FALSE)
           old  == CurrentScope
           size == VariableSize(t)
<1>1. /\ InParameters /\ open # <<>> /\ open' = open /\ nodes' \in 0..MaxNodes
      /\ scopeStack' = WithCurrentScope(emplace(old, n, info))
      /\ paramOffset' = (paramOffset + size) % Word
      /\ exact' = (exact /\ Fits(paramOffset, t))
      /\ UNCHANGED <<tables, currentFunc, offset, locals, crashed>>
  BY Before, CountTyped DEF AddParameter, InParameters, WalkInv, WalkTyped
<1>2. Known(t) /\ paramOffset \in Words
  BY TypesKnown DEF IInv, Typed, TypeOK
<1>3. info \in Infos BY <1>2 DEF SymboleInfo, Infos, Known
<1>4. Len(scopeStack) > 0 BY <1>1, Before, OuterFacts
<1>5. old \in Tables /\ emplace(old, n, info) \in Tables
  BY <1>3, <1>4, Before, EmptyScopeTable, WithCurrentScopeFacts, EmplaceTable
<1>6. /\ scopeStack' \in Seq(Tables)
      /\ Len(scopeStack') = Len(scopeStack)
      /\ scopeStack'[Len(scopeStack)] = emplace(old, n, info)
  BY <1>1, <1>4, <1>5, Before, WithCurrentScopeFacts
<1>7. errorNumber' \in 0..MaxErrors /\ (errorNumber' = 0 => errorNumber = 0)
  BY Before, ErrorsNat, CountErrorsFacts DEF AddParameter
<1>8. WalkInv' BY <1>1, Before DEF WalkInv, WalkTyped, WalkShape
<1>9. TablesTyped' BY <1>1, <1>6, <1>7, Before DEF TablesTyped, tables
<1>10. paramOffset' \in Words
  <2>1. paramOffset + size \in Nat BY <1>2 DEF Known, Words
  <2> QED BY <1>1, <2>1, ModWord
<1>11. Typed'
  BY <1>1, <1>8, <1>9, <1>10, TypedNext DEF IInv, Typed, TypeOK, WalkInv
<1>12. CleanStart' BY <1>1, <1>6, Before DEF CleanStart
<1>13. SizesKnown' BY <1>1 DEF IInv, SizesKnown, VariableSize
<1>14. LocalsDisjoint' BY <1>1, <1>7 DEF IInv, LocalsDisjoint, VariableSize
<1>15. ParametersPlaced'
  <2> DEFINE new == emplace(old, n, info)
  <2>1. CurrentScope' = new BY <1>6 DEF CurrentScope
  <2>2. /\ DOMAIN new = DOMAIN old \cup {n}
        /\ \A m \in DOMAIN old : new[m] = old[m]
        /\ n \notin DOMAIN old => new[n] = info
    BY EmplaceFacts
  <2>3. info.type = t /\ info.stackOffset = paramOffset BY DEF SymboleInfo
  <2>4. \A m \in DOMAIN old :
          /\ VariableSize(old[m].type) \in Words
          /\ exact =>
               /\ Ends(old[m], paramOffset)
               /\ \A k \in DOMAIN old : m # k =>
                    Ends(old[m], old[k].stackOffset) \/ Ends(old[k], old[m].stackOffset)
    BY <1>1 DEF IInv, ParametersPlaced
  <2>5. \A m \in DOMAIN old : old[m].stackOffset \in Words
    <3>1. IsTable(old) BY <1>5, TableFacts
    <3> QED BY <3>1 DEF IsTable, Infos
  <2>6. ASSUME exact' PROVE /\ exact
                            /\ Ends(info, paramOffset')
                            /\ paramOffset <= paramOffset'
    <3>1. exact /\ Fits(paramOffset, t) BY <2>6, <1>1
    <3>2. paramOffset' = paramOffset + size BY <3>1, <1>1, <1>2, FitsFacts
    <3>3. size \in Nat /\ paramOffset \in Nat BY <1>2 DEF Known, Words
    <3> HIDE DEF info
    <3>4. Ends(info, paramOffset') BY <3>2, <3>3, <2>3 DEF Ends
    <3> QED BY <3>1, <3>2, <3>3, <3>4
  <2>7. ASSUME exact', NEW m \in DOMAIN old PROVE Ends(old[m], paramOffset')
    BY <2>4, <2>5, <2>6, <2>7, <1>2, <1>10 DEF Ends, Words
  <2>8. \A m \in DOMAIN old, k \in DOMAIN old : exact' /\ m # k =>
          Ends(old[m], old[k].stackOffset) \/ Ends(old[k], old[m].stackOffset)
    BY <2>4, <2>6
  <2>9. \A m \in DOMAIN old : exact' => Ends(old[m], info.stackOffset)
    BY <2>3, <2>4, <2>6
  <2> HIDE DEF new, old, info
  <2>10. \A m \in DOMAIN new : m \in DOMAIN old \/ (m = n /\ n \notin DOMAIN old)
    BY <2>2
  <2>11. \A m \in DOMAIN new :
           /\ VariableSize(new[m].type) \in Words
           /\ exact' =>
                /\ Ends(new[m], paramOffset')
                /\ \A k \in DOMAIN new : m # k =>
                     Ends(new[m], new[k].stackOffset) \/ Ends(new[k], new[m].stackOffset)
    BY <1>2, <2>2, <2>3, <2>4, <2>6, <2>7, <2>8, <2>9, <2>10 DEF Known
  <2> QED BY <2>1, <2>11 DEF ParametersPlaced, Ends, VariableSize
<1> QED BY <1>8, <1>11, <1>12, <1>13, <1>14, <1>15 DEF IInv, WalkInv

LEMMA DeclareLocalStep ==
  ASSUME IInv, NEW n \in Names, NEW declared \in Types, NEW init,
         DeclareLocal(n, declared, init)
  PROVE  IInv'
<1> DEFINE t     == LocalType(declared)
           info  == SymboleInfo(t, offset, FALSE)
           old   == CurrentScope
           local == [type |-> t, offset |-> scopeStack'[Len(scopeStack)][n].stackOffset]
           end   == (offset + VariableSize(t)) % Word
<1>1. /\ VisitStatement(FALSE)
      /\ scopeStack' = WithCurrentScope(emplace(old, n, info))
      /\ offset' = AlignUp(end, VariableAlignment(t))
      /\ exact' = (exact /\ Fits(offset, t))
      /\ locals' = Append(locals, local)
      /\ CountErrors(One(n \in DOMAIN old) + ConversionErrors(scopeStack', globals, init, t))
      /\ UNCHANGED <<tables, currentFunc, paramOffset, crashed>>
  BY DEF DeclareLocal
<1>2. Known(t) /\ t \in LocalTypeSet /\ offset \in Words
  BY TypesKnown DEF IInv, Typed, TypeOK
<1>3. info \in Infos /\ info.stackOffset = offset
  BY <1>2 DEF SymboleInfo, Infos, Known
<1>4. /\ WalkInv' /\ ~InParameters' /\ Len(open') = Len(open) /\ open' # <<>>
      /\ Len(scopeStack) > 0
  <2>1. /\ WalkInv' /\ ~InParameters' /\ Len(open') = Len(open) /\ open' # <<>>
        /\ Len(open) \in Nat \ {0}
    BY <1>1, StatementWalk
  <2> QED BY <2>1, Before
<1>5. old \in Tables /\ emplace(old, n, info) \in Tables
  BY <1>3, <1>4, Before, EmptyScopeTable, WithCurrentScopeFacts, EmplaceTable
<1>6. /\ scopeStack' \in Seq(Tables)
      /\ Len(scopeStack') = Len(scopeStack)
      /\ scopeStack'[Len(scopeStack)] = emplace(old, n, info)
  BY <1>1, <1>4, <1>5, Before, WithCurrentScopeFacts
<1>7. /\ errorNumber' \in 0..MaxErrors
      /\ errorNumber' = 0 => errorNumber = 0 /\ n \notin DOMAIN old
  <2>1. /\ One(n \in DOMAIN old) \in Nat
        /\ One(n \in DOMAIN old) = 0 => n \notin DOMAIN old
        /\ ConversionErrors(scopeStack', globals, init, t) \in Nat
    BY ErrorsNat
  <2> DEFINE new == One(n \in DOMAIN old) + ConversionErrors(scopeStack', globals, init, t)
  <2>2. new \in Nat /\ (new = 0 => n \notin DOMAIN old) BY <2>1
  <2> HIDE DEF new
  <2>3. CountErrors(new) BY <1>1 DEF new
  <2> QED BY <2>2, <2>3, Before, CountErrorsFacts
<1>8. TablesTyped' BY <1>1, <1>6, <1>7, Before DEF TablesTyped, tables
<1>9. end \in Words /\ offset' \in Words
  <2>1. offset + VariableSize(t) \in Nat BY <1>2 DEF Known, Words
  <2>2. end \in Words BY <2>1, ModWord
  <2> QED BY <1>1, <1>2, <2>2, AlignUpFacts DEF Known
<1>10. local \in [type : LocalTypeSet, offset : Words]
  <2>1. emplace(old, n, info)[n] \in Infos
    <3> HIDE DEF info, old
    <3>1. IsTable(emplace(old, n, info)) BY <1>5, TableFacts
    <3>2. DOMAIN emplace(old, n, info) = DOMAIN old \cup {n} BY EmplaceFacts
    <3> QED BY <3>1, <3>2 DEF IsTable
  <2>2. emplace(old, n, info)[n].stackOffset \in Words BY <2>1 DEF Infos
  <2> QED BY <1>2, <1>6, <2>2 DEF Known
<1>11. /\ locals \in Seq([type : LocalTypeSet, offset : Words])
       /\ locals' \in Seq([type : LocalTypeSet, offset : Words])
  <2>1. locals \in Seq([type : LocalTypeSet, offset : Words]) BY DEF IInv, Typed, TypeOK
  <2> HIDE DEF local
  <2> QED BY <1>1, <1>10, <2>1
<1>12. Typed'
  BY <1>1, <1>4, <1>8, <1>9, <1>11, TypedNext DEF IInv, Typed, TypeOK, WalkInv
<1>13. CleanStart' BY <1>4, <1>6, Before DEF CleanStart
<1> HIDE DEF local
<1>14. /\ Len(locals) \in Nat /\ Len(locals') = Len(locals) + 1
       /\ locals'[Len(locals) + 1] = local
       /\ \A i \in 1..Len(locals) : locals'[i] = locals[i]
  BY <1>1, <1>10, <1>11
<1>15. local.type = t BY DEF local
<1>16. \A i \in 1..Len(locals) : /\ VariableSize(locals[i].type) \in Words
                                 /\ locals[i].offset \in Words
  <2>1. DOMAIN locals = 1..Len(locals) BY <1>11, LenProperties
  <2>2. ASSUME NEW i \in 1..Len(locals) PROVE locals[i].offset \in Words
    <3>1. locals[i] \in [type : LocalTypeSet, offset : Words] BY <1>11, ElementOfSeq
    <3> QED BY <3>1
  <2> QED BY <2>1, <2>2 DEF IInv, SizesKnown
<1>17. SizesKnown'
  <2>1. DOMAIN locals' = 1..Len(locals)+1 BY <1>11, <1>14, LenProperties
  <2>2. \A i \in 1..Len(locals)+1 : VariableSize(locals'[i].type) \in Words
    BY <1>2, <1>14, <1>15, <1>16 DEF Known
  <2> QED BY <2>1, <2>2 DEF SizesKnown, VariableSize
<1>18. LocalsDisjoint'
  <2> SUFFICES ASSUME errorNumber' = 0, exact' PROVE
        \A i \in DOMAIN locals' :
          /\ locals'[i].offset + VariableSize(locals'[i].type) <= offset'
          /\ \A j \in DOMAIN locals' :
               i < j => locals'[i].offset + VariableSize(locals'[i].type) <= locals'[j].offset
    BY DEF LocalsDisjoint, VariableSize
  <2>1. errorNumber = 0 /\ exact /\ Fits(offset, t) /\ n \notin DOMAIN old
    BY <1>1, <1>7
  <2>2. local.offset = offset
    <3>1. emplace(old, n, info)[n] = info BY <2>1, EmplaceFacts
    <3> HIDE DEF info, old
    <3> QED BY <1>3, <1>6, <3>1 DEF local
  <2>3. offset + VariableSize(t) <= offset' /\ VariableSize(t) \in Words
    BY <1>1, <1>2, <2>1, FitsFacts DEF Known
  <2>4. \A i \in 1..Len(locals) :
          /\ locals[i].offset + VariableSize(locals[i].type) <= offset
          /\ \A j \in 1..Len(locals) :
               i < j => locals[i].offset + VariableSize(locals[i].type) <= locals[j].offset
    BY <1>11, <2>1, LenProperties DEF IInv, LocalsDisjoint
  <2>5. \A i \in 1..Len(locals) : locals[i].offset + VariableSize(locals[i].type) <= offset'
    BY <1>2, <1>9, <1>16, <2>3, <2>4 DEF Words
  <2>6. DOMAIN locals' = 1..Len(locals)+1 BY <1>11, <1>14, LenProperties
  <2>7. ASSUME NEW i \in 1..Len(locals)+1
        PROVE  /\ locals'[i].offset + VariableSize(locals'[i].type) <= offset'
               /\ \A j \in 1..Len(locals)+1 :
                    i < j => locals'[i].offset + VariableSize(locals'[i].type) <= locals'[j].offset
    <3>1. CASE i = Len(locals) + 1
      BY <3>1, <1>14, <1>15, <2>2, <2>3
    <3>2. CASE i \in 1..Len(locals)
      <4>1. locals'[i] = locals[i] BY <3>2, <1>14
      <4>2. ASSUME NEW j \in 1..Len(locals)+1, i < j
            PROVE  locals[i].offset + VariableSize(locals[i].type) <= locals'[j].offset
        <5>1. CASE j = Len(locals) + 1 BY <5>1, <3>2, <1>14, <2>2, <2>4
        <5>2. CASE j \in 1..Len(locals) BY <5>2, <3>2, <4>2, <1>14, <2>4
        <5> QED BY <5>1, <5>2, <1>14
      <4> QED BY <4>1, <4>2, <3>2, <2>5
    <3> QED BY <3>1, <3>2, <1>14
  <2> QED BY <2>6, <2>7
<1>19. ParametersPlaced' BY <1>4 DEF ParametersPlaced
<1> QED BY <1>4, <1>12, <1>13, <1>17, <1>18, <1>19 DEF IInv, WalkInv

LEMMA EndFunctionStep == ASSUME IInv, EndFunction PROVE IInv'
<1>1. WalkInv' /\ Len(open) = 1 /\ open' = <<>>
  BY Before, CloseFunctionWalk DEF EndFunction
<1>2. scopeStack' \in Seq(Tables) /\ Len(scopeStack') = 0
  <2>1. PopScope BY DEF EndFunction
  <2>2. scopeStack \in Seq(Tables) /\ Len(scopeStack) = 1 BY <1>1, Before
  <2> QED BY <2>1, <2>2, PopFacts
<1>3. /\ offset' = 0 /\ locals' = <<>> /\ exact' = TRUE
      /\ UNCHANGED <<tables, currentFunc, paramOffset, crashed>>
  BY DEF EndFunction
<1>4. errorNumber' \in 0..MaxErrors
  BY Before, ErrorsNat, CountErrorsFacts DEF EndFunction
<1>5. TablesTyped' BY <1>2, <1>3, <1>4, Before DEF TablesTyped, tables
<1>6. 0 \in Words BY WordAssumption DEF Words
<1>7. Typed'
  BY <1>1, <1>3, <1>5, <1>6, TypedNext DEF IInv, Typed, TypeOK, WalkInv
<1>8. CleanStart' BY <1>1, <1>2, <1>3 DEF CleanStart
<1>9. SizesKnown' /\ LocalsDisjoint' BY <1>3 DEF SizesKnown, LocalsDisjoint
<1>10. ParametersPlaced' BY <1>1 DEF ParametersPlaced, InParameters
<1> QED BY <1>1, <1>7, <1>8, <1>9, <1>10 DEF IInv, WalkInv

-----------------------------------------------------------------------------
(***************************************************************************)
(* The theorems.                                                           *)
(***************************************************************************)
LEMMA StepInv == IInv /\ [Next]_vars => IInv'
<1> SUFFICES ASSUME IInv, [Next]_vars PROVE IInv'
  OBVIOUS
<1>1. CASE UNCHANGED vars
  BY <1>1 DEF vars, IInv, Typed, TypeOK, WalkShape, CleanStart, SizesKnown,
              LocalsDisjoint, ParametersPlaced, InParameters, CurrentScope, Top,
              Ends, VariableSize
<1>2. CASE Step
  <2>1. CASE DeclareType BY <2>1, DeclareTypeStep
  <2>2. CASE \E n \in Names, t \in Types, init \in Initialisers : DeclareGlobal(n, t, init)
    BY <2>2, DeclareGlobalStep
  <2>3. CASE \E f \in FuncNames, t \in Types \cup {Builtin("VOID")} :
               BeginFunction(f, t) \/ Prototype(f, t)
    BY <2>3, BeginFunctionStep, PrototypeStep
  <2>4. CASE \E n \in Names, t \in Types, init \in Initialisers :
               AddParameter(n, t, init) \/ DeclareLocal(n, t, init)
    BY <2>4, AddParameterStep, DeclareLocalStep
  <2>5. CASE \E n \in Names, e \in Expressions : Assign(n, e) BY <2>5, AssignStep
  <2>6. CASE \E e \in Expressions : Return(e) BY <2>6, ReturnStep
  <2>7. CASE OtherStatement BY <2>7, OtherStatementStep
  <2>8. CASE BeginBlock BY <2>8, BeginBlockStep
  <2>9. CASE EndBlock BY <2>9, EndBlockStep
  <2>10. CASE \E hasElse \in BOOLEAN, e \in Expressions : BeginIf(hasElse, e)
    BY <2>10, BeginIfStep
  <2>11. CASE BeginElse BY <2>11, BeginElseStep
  <2>12. CASE EndIf BY <2>12, EndIfStep
  <2>13. CASE EndFunction BY <2>13, EndFunctionStep
  <2> QED BY <1>2, <2>1, <2>2, <2>3, <2>4, <2>5, <2>6, <2>7, <2>8, <2>9, <2>10,
             <2>11, <2>12, <2>13 DEF Step
<1> QED BY <1>1, <1>2 DEF Next, Stop

(* The inductive invariant of the pass over declarations and statements.   *)
THEOREM InductiveInvariant == Spec => []IInv
<1> QED BY InitInv, StepInv, PTL DEF Spec

(* Every table, frame and counter of the analyser has its type.            *)
THEOREM TypeCorrect == Spec => []TypeOK
<1>1. IInv => TypeOK BY DEF IInv, Typed
<1> QED BY <1>1, InductiveInvariant, PTL

(* FuncStmtNode leaves no scope and no offset behind, and a scope is open  *)
(* exactly as long as its statement is.                                    *)
THEOREM ScopesClean == Spec => []CleanStart
<1>1. IInv => CleanStart BY DEF IInv
<1> QED BY <1>1, InductiveInvariant, PTL

(* The locals of a function accepted so far share no byte of its frame.    *)
THEOREM FramesDisjoint == Spec => []LocalsDisjoint
<1>1. IInv => LocalsDisjoint BY DEF IInv
<1> QED BY <1>1, InductiveInvariant, PTL

(* The parameters of a function share no byte.                             *)
THEOREM ParametersApart == Spec => []ParametersDisjoint
<1>1. IInv => ParametersDisjoint
  BY DEF IInv, ParametersPlaced, ParametersDisjoint, Ends
<1> QED BY <1>1, InductiveInvariant, PTL

-----------------------------------------------------------------------------
(***************************************************************************)
(* The lookups.                                                            *)
(***************************************************************************)
LEMMA Extremes ==
  ASSUME NEW k \in Nat \ {0}
  PROVE  Innermost(1..k) \in 1..k /\ Outermost(1..k) \in 1..k
<1>1. k \in 1..k /\ \A e \in 1..k : e <= k OBVIOUS
<1>2. 1 \in 1..k /\ \A e \in 1..k : 1 <= e OBVIOUS
<1> QED BY <1>1, <1>2 DEF Innermost, Outermost

LEMMA Only ==
  ASSUME NEW d \in Nat
  PROVE  Innermost({d}) = d /\ Outermost({d}) = d
BY DEF Innermost, Outermost

LEMMA GlobalOnce ==
  ASSUME IInv, NEW n \in DOMAIN globals, Holding(scopeStack, n) = {}, scopeStack # <<>>
  PROVE  /\ accessInfo(scopeStack, globals, n) = globals[n]
         /\ resolveVariable(scopeStack, globals, n) = globals[n]
         /\ variableType(scopeStack, globals, n) = globals[n].type
<1>1. /\ Len(scopeStack) \in Nat \ {0}
      /\ DOMAIN scopeStack = 1..Len(scopeStack)
  BY Before, EmptySeq, LenProperties
<1>2. Hits(scopeStack, globals, n) = 1..Len(scopeStack)
  BY <1>1 DEF Hits
<1>3. \A d \in 1..Len(scopeStack) : InfoAt(scopeStack, globals, d, n) = globals[n]
  BY <1>1 DEF InfoAt, Holding
<1>4. accessInfo(scopeStack, globals, n) = globals[n]
  BY <1>1, <1>2, <1>3, Extremes DEF accessInfo
<1>5. resolveVariable(scopeStack, globals, n) = globals[n]
  <2>1. 1..Len(scopeStack) # {} BY <1>1
  <2> QED BY <2>1, <1>1, <1>2, <1>3, Extremes DEF resolveVariable
<1>6. variableType(scopeStack, globals, n) = globals[n].type
  BY DEF variableType
<1> QED BY <1>4, <1>5, <1>6

LEMMA ScopeOnce ==
  ASSUME IInv, NEW n, n \notin DOMAIN globals,
         NEW d \in DOMAIN scopeStack, Holding(scopeStack, n) = {d}
  PROVE  /\ accessInfo(scopeStack, globals, n) = scopeStack[d][n]
         /\ resolveVariable(scopeStack, globals, n) = scopeStack[d][n]
         /\ variableType(scopeStack, globals, n) = scopeStack[d][n].type
<1>1. d \in Nat BY Before, LenProperties
<1>2. n \in DOMAIN scopeStack[d] BY DEF Holding
<1>3. Hits(scopeStack, globals, n) = {d} BY DEF Hits
<1>4. {d} # {} OBVIOUS
<1>5. InfoAt(scopeStack, globals, d, n) = scopeStack[d][n] BY <1>2 DEF InfoAt
<1>6. accessInfo(scopeStack, globals, n) = scopeStack[d][n]
  BY <1>1, <1>3, <1>5, Only DEF accessInfo
<1>7. resolveVariable(scopeStack, globals, n) = scopeStack[d][n]
  BY <1>1, <1>3, <1>4, <1>5, Only DEF resolveVariable
<1>8. variableType(scopeStack, globals, n) = scopeStack[d][n].type
  BY <1>1, <1>4, Only DEF variableType
<1> QED BY <1>6, <1>7, <1>8

(* The visitor of VariableAccessNode, resolveVariable and type_precision   *)
(* agree on every name that is bound once, however many scopes are open.   *)
THEOREM LookupsConsistent == Spec => []LookupsAgree
<1>1. IInv => LookupsAgree
  <2> SUFFICES ASSUME IInv, NEW n \in Names, BoundOnce(n)
               PROVE  /\ accessInfo(scopeStack, globals, n)
                           = resolveVariable(scopeStack, globals, n)
                      /\ accessInfo(scopeStack, globals, n).type
                           = variableType(scopeStack, globals, n)
    BY DEF LookupsAgree
  <2>1. CASE n \in DOMAIN globals /\ Holding(scopeStack, n) = {} /\ scopeStack # <<>>
    BY <2>1, GlobalOnce
  <2>2. CASE n \notin DOMAIN globals /\ \E d \in DOMAIN scopeStack : Holding(scopeStack, n) = {d}
    BY <2>2, ScopeOnce
  <2> QED BY <2>1, <2>2 DEF BoundOnce
<1> QED BY <1>1, InductiveInvariant, PTL

-----------------------------------------------------------------------------
(***************************************************************************)
(* Bindings.                                                               *)
(***************************************************************************)

(* What is kept when no scope is touched.                                  *)
LEMMA SameStackKeeps ==
  ASSUME scopeStack' = scopeStack,
         \A n \in DOMAIN globals : n \in DOMAIN globals' /\ globals'[n] = globals[n]
  PROVE  BindingsKept
BY DEF BindingsKept

LEMMA PushKeeps ==
  ASSUME IInv, PushScope, globals' = globals
  PROVE  BindingsKept
<1>1. /\ Len(scopeStack) \in Nat
      /\ DOMAIN scopeStack = 1..Len(scopeStack)
      /\ scopeStack' \in Seq(Tables) /\ Len(scopeStack') = Len(scopeStack) + 1
      /\ \A d \in 1..Len(scopeStack) : scopeStack'[d] = scopeStack[d]
  BY Before, PushFacts, LenProperties
<1>2. DOMAIN scopeStack' = 1..Len(scopeStack) + 1
  BY <1>1, LenProperties
<1> QED BY <1>1, <1>2 DEF BindingsKept

(* The scope that is closed is the innermost, the one ScopeClosed names.   *)
LEMMA PopKeeps ==
  ASSUME IInv, PopScope, globals' = globals, Len(open) > 0,
         Len(open') = Len(open) - 1
  PROVE  BindingsKept
<1>1. /\ Len(scopeStack) \in Nat /\ Len(scopeStack) > 0
      /\ Len(open') < Len(scopeStack)
      /\ DOMAIN scopeStack = 1..Len(scopeStack)
  BY Before, LenProperties
<1>2. /\ scopeStack' \in Seq(Tables) /\ Len(scopeStack') = Len(scopeStack) - 1
      /\ \A d \in 1..Len(scopeStack)-1 : scopeStack'[d] = scopeStack[d]
  BY <1>1, Before, PopFacts
<1>3. DOMAIN scopeStack' = 1..Len(scopeStack)-1
  BY <1>1, <1>2, LenProperties
<1>4. \A d \in DOMAIN scopeStack : ~ScopeClosed(d) => d \in 1..Len(scopeStack)-1
  BY <1>1 DEF ScopeClosed
<1> QED BY <1>2, <1>3, <1>4 DEF BindingsKept

LEMMA TopReplaced ==
  ASSUME NEW scope, Len(scopeStack) \in Nat, Len(scopeStack) > 0,
         DOMAIN scopeStack = 1..Len(scopeStack)
  PROVE  /\ DOMAIN WithCurrentScope(scope) = DOMAIN scopeStack
         /\ WithCurrentScope(scope)[Len(scopeStack)] = scope
         /\ \A d \in 1..Len(scopeStack)-1 : WithCurrentScope(scope)[d] = scopeStack[d]
<1> DEFINE k   == Len(scopeStack)
           new == WithCurrentScope(scope)
<1>1. k \in Nat /\ k > 0 /\ DOMAIN scopeStack = 1..k
  OBVIOUS
<1>2. new = [scopeStack EXCEPT ![k] = scope]
  BY DEF WithCurrentScope
<1> HIDE DEF k, new
<1>3. DOMAIN new = DOMAIN scopeStack BY <1>2
<1>4. k \in DOMAIN scopeStack BY <1>1
<1>5. new[k] = scope BY <1>2, <1>4
<1>6. ASSUME NEW d \in 1..k-1 PROVE new[d] = scopeStack[d]
  <2>1. d \in DOMAIN scopeStack /\ d # k BY <1>1
  <2> QED BY <1>2, <2>1
<1> QED BY <1>3, <1>5, <1>6 DEF k, new

(* emplace: a declaration of a name that is there changes nothing.         *)
LEMMA EmplaceKeeps ==
  ASSUME IInv, Len(open) > 0, globals' = globals, NEW n, NEW info,
         scopeStack' = WithCurrentScope(emplace(CurrentScope, n, info))
  PROVE  BindingsKept
<1>1. /\ Len(scopeStack) \in Nat /\ Len(scopeStack) > 0
      /\ DOMAIN scopeStack = 1..Len(scopeStack)
  BY Before, LenProperties
<1> DEFINE old   == CurrentScope
           scope == emplace(old, n, info)
<1> HIDE DEF old
<1>2. \A m \in DOMAIN old : m \in DOMAIN scope /\ scope[m] = old[m]
  BY DEF emplace
<1> HIDE DEF scope
<1>3. /\ DOMAIN scopeStack' = DOMAIN scopeStack
      /\ scopeStack'[Len(scopeStack)] = scope
      /\ \A d \in 1..Len(scopeStack)-1 : scopeStack'[d] = scopeStack[d]
  <2>1. scopeStack' = WithCurrentScope(scope) BY DEF scope, old
  <2> QED BY <1>1, <2>1, TopReplaced
<1>4. ASSUME NEW d \in DOMAIN scopeStack
      PROVE  \A m \in DOMAIN scopeStack[d] :
               m \in DOMAIN scopeStack'[d] /\ scopeStack'[d][m] = scopeStack[d][m]
  <2>1. CASE d = Len(scopeStack) BY <2>1, <1>2, <1>3 DEF CurrentScope, old
  <2>2. CASE d \in 1..Len(scopeStack)-1 BY <2>2, <1>3
  <2> QED BY <1>1, <2>1, <2>2
<1> QED BY <1>3, <1>4 DEF BindingsKept

(* The scope of a first branch is closed with it.                          *)
LEMMA ElseKeeps == ASSUME IInv, BeginElse PROVE BindingsKept
<1>1. /\ Len(open) > 1 /\ Len(open') = Len(open)
      /\ open[Len(open)].node = "if" /\ open'[Len(open)].node = "else"
  BY Before, OpenElseWalk DEF BeginElse
<1>2. /\ Len(scopeStack) \in Nat /\ Len(scopeStack) > 0
      /\ Len(scopeStack) = Len(open)
      /\ DOMAIN scopeStack = 1..Len(scopeStack)
  BY <1>1, Before, LenProperties
<1>3. ScopeClosed(Len(scopeStack)) BY <1>1, <1>2 DEF ScopeClosed
<1>4. scopeStack' = WithCurrentScope(EmptyScope) /\ globals' = globals
  BY DEF BeginElse, tables
<1>5. /\ DOMAIN scopeStack' = DOMAIN scopeStack
      /\ \A d \in 1..Len(scopeStack)-1 : scopeStack'[d] = scopeStack[d]
  BY <1>2, <1>4, TopReplaced
<1>6. \A d \in DOMAIN scopeStack : ~ScopeClosed(d) => d \in 1..Len(scopeStack)-1
  BY <1>2, <1>3
<1> QED BY <1>4, <1>5, <1>6 DEF BindingsKept

LEMMA StepKeeps == ASSUME IInv, Step PROVE BindingsKept
<1>1. CASE DeclareType BY <1>1, SameStackKeeps DEF DeclareType, tables
<1>2. ASSUME NEW n \in Names, NEW t \in Types, NEW init, DeclareGlobal(n, t, init)
      PROVE  BindingsKept
  <2>1. scopeStack' = scopeStack
        /\ globals' = emplace(globals, n, SymboleInfo(t, 0, TRUE))
    BY <1>2 DEF DeclareGlobal
  <2>2. \A m \in DOMAIN globals : m \in DOMAIN globals' /\ globals'[m] = globals[m]
    BY <2>1 DEF emplace
  <2> QED BY <2>1, <2>2, SameStackKeeps
<1>3. ASSUME NEW f, NEW t, BeginFunction(f, t) PROVE BindingsKept
  <2>1. open = <<>> /\ globals' = globals BY <1>3 DEF BeginFunction, OpenFunction
  <2>2. DOMAIN scopeStack = {} BY <2>1, Before, LenProperties
  <2> QED BY <2>1, <2>2 DEF BindingsKept
<1>4. ASSUME NEW f, NEW t, Prototype(f, t) PROVE BindingsKept
  BY <1>4, SameStackKeeps DEF Prototype
<1>5. ASSUME NEW n, NEW t, NEW init, AddParameter(n, t, init) PROVE BindingsKept
  <2>1. /\ open # <<>> /\ globals' = globals
        /\ scopeStack' = WithCurrentScope(emplace(CurrentScope, n,
                                                  SymboleInfo(t, paramOffset, FALSE)))
    BY <1>5 DEF AddParameter, InParameters, tables
  <2>2. Len(open) > 0 BY <2>1, Before, OuterFacts
  <2> QED BY <2>1, <2>2, EmplaceKeeps
<1>6. ASSUME NEW n, NEW t, NEW init, DeclareLocal(n, t, init) PROVE BindingsKept
  <2>1. /\ open # <<>> /\ globals' = globals
        /\ scopeStack' = WithCurrentScope(emplace(CurrentScope, n,
                                            SymboleInfo(LocalType(t), offset, FALSE)))
    BY <1>6 DEF DeclareLocal, VisitStatement, Accepts, tables
  <2>2. Len(open) > 0 BY <2>1, Before, OuterFacts
  <2> QED BY <2>1, <2>2, EmplaceKeeps
<1>7. ASSUME NEW n, NEW e, Assign(n, e) PROVE BindingsKept
  BY <1>7, SameStackKeeps DEF Assign, tables
<1>8. ASSUME NEW e, Return(e) PROVE BindingsKept
  BY <1>8, SameStackKeeps DEF Return, tables
<1>9. CASE OtherStatement BY <1>9, SameStackKeeps DEF OtherStatement, tables
<1>10. CASE BeginBlock BY <1>10, PushKeeps DEF BeginBlock, tables
<1>11. ASSUME NEW hasElse, NEW e, BeginIf(hasElse, e) PROVE BindingsKept
  BY <1>11, PushKeeps DEF BeginIf, tables
<1>12. CASE BeginElse BY <1>12, ElseKeeps
<1>13. CASE EndBlock
  <2>1. Len(open) > 1 /\ Len(open') = Len(open) - 1 /\ Len(open) \in Nat
    BY <1>13, Before, CloseBlockWalk, LenProperties DEF EndBlock
  <2> QED BY <1>13, <2>1, PopKeeps DEF EndBlock, tables
<1>14. CASE EndIf
  <2>1. Len(open) > 1 /\ Len(open') = Len(open) - 1 /\ Len(open) \in Nat
    BY <1>14, Before, CloseIfWalk, LenProperties DEF EndIf
  <2> QED BY <1>14, <2>1, PopKeeps DEF EndIf, tables
<1>15. CASE EndFunction
  <2>1. Len(open) = 1 /\ open' = <<>>
    BY <1>15, Before, CloseFunctionWalk DEF EndFunction
  <2>2. Len(open) > 0 /\ Len(open') = Len(open) - 1 BY <2>1
  <2> QED BY <1>15, <2>2, PopKeeps DEF EndFunction, tables
<1> QED BY <1>1, <1>2, <1>3, <1>4, <1>5, <1>6, <1>7, <1>8, <1>9, <1>10, <1>11,
           <1>12, <1>13, <1>14, <1>15 DEF Step

(* A name keeps the type and the offset it was bound with until its scope  *)
(* is closed (unordered_map::emplace on scopeStack.back()).                *)
THEOREM BindingsPreserved == Spec => BindingsStable
<1>1. IInv /\ [Next]_vars => [BindingsKept]_vars
  BY StepKeeps DEF Next, Stop
<1> QED BY <1>1, InductiveInvariant, PTL DEF Spec, BindingsStable

=============================================================================
