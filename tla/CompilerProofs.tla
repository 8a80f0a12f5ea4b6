---------------------------- MODULE CompilerProofs ----------------------------
(***************************************************************************)
(* Theorems about whole programs, of any size and over any names, and that *)
(* Compiler implements CompilerPromise.                                    *)
(***************************************************************************)
EXTENDS Compiler, FiniteSetTheorems, WellFoundedInduction, TLAPS

(* The first of a set of positions is one of them, and none is before it:  *)
(* its initial segment is the smallest.                                    *)
LEMMA FirstFacts ==
  ASSUME NEW S \in SUBSET Nat, S # {}
  PROVE  First(S) \in S /\ \A j \in S : First(S) <= j
<1> DEFINE segments == {1..k : k \in S}
<1>1. segments \subseteq FiniteSubsetsOf(Nat)
  <2>1. ASSUME NEW k \in S PROVE 1..k \in FiniteSubsetsOf(Nat)
    <3>1. IsFiniteSet(1..k) BY FS_Interval
    <3> QED BY <3>1 DEF FiniteSubsetsOf
  <2> QED BY <2>1
<1>2. segments # {} OBVIOUS
<1> HIDE DEF segments
<1>3. PICK x \in segments : \A y \in segments : ~ (<<y, x>> \in StrictSubsetOrdering(Nat))
  BY <1>1, <1>2, FS_StrictSubsetOrderingWellFounded, WFMin
<1>4. PICK n \in S : x = 1..n
  BY DEF segments
<1>5. ASSUME NEW j \in S PROVE n <= j
  <2>1. 1..j \in segments BY DEF segments
  <2>2. SUFFICES ASSUME j < n PROVE FALSE OBVIOUS
  <2>3. 1..j \subseteq 1..n /\ 1..j # 1..n BY <2>2
  <2>4. 1..j \in SUBSET Nat /\ 1..n \in SUBSET Nat OBVIOUS
  <2> QED BY <1>3, <1>4, <2>1, <2>3, <2>4 DEF StrictSubsetOrdering
<1> QED BY <1>5 DEF First

LEMMA ElementOf ==
  ASSUME NEW S, NEW s \in Seq(S), NEW i \in DOMAIN s
  PROVE  s[i] \in S
OBVIOUS

LEMMA FirstOfMore ==
  ASSUME NEW n \in Nat
  PROVE  /\ First({n}) = n
         /\ \A S \in SUBSET Nat : S # {} /\ (\A k \in S : k <= n) => First(S \cup {n}) = First(S)
<1>1. First({n}) = n BY FirstFacts
<1>2. ASSUME NEW S \in SUBSET Nat, S # {}, \A k \in S : k <= n
      PROVE  First(S \cup {n}) = First(S)
  <2> DEFINE x == First(S)  y == First(S \cup {n})
  <2>1. x \in S /\ \A j \in S : x <= j BY <1>2, FirstFacts
  <2>2. y \in S \cup {n} /\ \A j \in S \cup {n} : y <= j
    <3>1. S \cup {n} \in SUBSET Nat /\ S \cup {n} # {} OBVIOUS
    <3> HIDE DEF y
    <3> QED BY ONLY <3>1, FirstFacts DEF y
  <2> HIDE DEF x, y
  <2>3. x = y BY <1>2, <2>1, <2>2
  <2> QED BY <2>3 DEF x, y
<1> QED BY <1>1, <1>2

(* A table after new entries.                                              *)
LEMMA EmplaceFacts ==
  ASSUME NEW table, NEW new, NEW value
  PROVE  /\ DOMAIN emplace(table, new, value) = new \cup DOMAIN table
         /\ \A k \in DOMAIN table : emplace(table, new, value)[k] = table[k]
         /\ \A k \in new \ DOMAIN table : emplace(table, new, value)[k] = value
BY DEF emplace

LEMMA EmplaceTyped ==
  ASSUME NEW table, NEW keys, NEW values, IsTable(table, keys, values),
         NEW new \in SUBSET keys, NEW value \in values
  PROVE  IsTable(emplace(table, new, value), keys, values)
<1>1. DOMAIN emplace(table, new, value) = new \cup DOMAIN table
  BY DEF emplace
<1>2. ASSUME NEW k \in new \cup DOMAIN table PROVE emplace(table, new, value)[k] \in values
  <2>1. emplace(table, new, value)[k] = IF k \in DOMAIN table THEN table[k] ELSE value
    BY <1>2 DEF emplace
  <2> QED BY <2>1 DEF IsTable
<1> QED BY <1>1, <1>2 DEF IsTable

-----------------------------------------------------------------------------
(***************************************************************************)
(* Tables with proper types: an enum or a struct has a name that can be    *)
(* declared, so that what is looked up by it stays in the tables.          *)
(***************************************************************************)
Proper          == {t \in Types : t.kind \in {"ENUM", "STRUCT"} => t.name \in Names}
BackingKinds    == {"UINT8", "UINT16", Untyped.kind}
ProperFunctions == [retType : Proper, paramType : Seq(Proper), id : Nat]
ProperInfos     == [value : Nat, kind : BackingKinds]
EnumKeys        == Names \X Members

ProperTables(env) ==
  /\ IsTable(env.functions, Names, ProperFunctions)
  /\ IsTable(env.globals, Names, Proper)
  /\ IsTable(env.enums, Names, BackingKinds)
  /\ IsTable(env.members, EnumKeys, ProperInfos)
  /\ IsTable(env.parameters, Names, Proper)

LEMMA KindsFacts ==
  /\ \A k \in Kinds \ {"ENUM", "STRUCT"} : Builtin(k) \in Proper /\ Builtin(k).kind = k
  /\ Untyped \in Proper /\ Untyped.kind = "FLOAT32" /\ Untyped = Builtin("FLOAT32")
  /\ BackingKinds \subseteq Kinds \ {"ENUM", "STRUCT"}
<1>1. \A k \in Kinds \ {"ENUM", "STRUCT"} : Builtin(k) \in Proper /\ Builtin(k).kind = k
  BY DEF Builtin, Proper, Types, NoName
<1>2. Untyped.kind = "FLOAT32" BY DEF Untyped, Builtin
<1> QED BY <1>1, <1>2 DEF Untyped, Kinds, BackingKinds

LEMMA DefaultsProper == NoFunction \in ProperFunctions /\ NoMember \in ProperInfos
<1>1. NoFunction \in ProperFunctions BY KindsFacts DEF NoFunction, ProperFunctions
<1>2. NoMember \in ProperInfos BY DEF NoMember, MemberInfo, ProperInfos, BackingKinds
<1> QED BY <1>1, <1>2

(* The shapes of an expression and of a statement.                         *)
LEMMA SimpleFacts ==
  ASSUME NEW e \in Simple
  PROVE  /\ e.node \in {"literal", "access", "member"}
         /\ e.node = "access" => e.name \in Names
         /\ e.node = "member" => e.key \in EnumKeys
<1>1. CASE e = Literal BY <1>1 DEF Literal
<1>2. CASE \E n \in Names : e = Access(n) BY <1>2 DEF Access
<1>3. CASE \E n \in Names, m \in Members : e = EnumAccess(n, m)
  BY <1>3 DEF EnumAccess, EnumKeys
<1> QED BY <1>1, <1>2, <1>3 DEF Simple

LEMMA CallFacts ==
  ASSUME NEW e \in Calls
  PROVE  /\ e.node = "call" /\ e.name \in Names /\ e.args \in Seq(Simple)
         /\ Len(e.args) \in Nat /\ DOMAIN e.args = 1..Len(e.args)
         /\ \A i \in DOMAIN e.args : e.args[i] \in Simple
BY DEF Calls

LEMMA ExpressionFacts ==
  ASSUME NEW e \in Simple \cup Calls
  PROVE  /\ e.node \in {"literal", "access", "member", "call"}
         /\ e.node \in {"access", "call"} => e.name \in Names
         /\ e.node = "member" => e.key \in EnumKeys
         /\ e.node = "call" <=> e \in Calls
         /\ e.node # "call" <=> e \in Simple
<1>1. CASE e \in Simple BY <1>1, SimpleFacts, CallFacts
<1>2. CASE e \in Calls BY <1>2, CallFacts, SimpleFacts
<1> QED BY <1>1, <1>2

LEMMA StatementFacts ==
  ASSUME NEW s \in Statements
  PROVE  /\ s.stmt \in {"return", "init", "call"}
         /\ s.value \in Simple \cup Calls
         /\ s.stmt = "call" => s.value \in Calls
BY DEF Statements

-----------------------------------------------------------------------------
(***************************************************************************)
(* The check of a statement against proper tables.                         *)
(***************************************************************************)
LEMMA PrecisionProper ==
  ASSUME NEW env, ProperTables(env), NEW e \in Simple \cup Calls
  PROVE  type_precision(env, e) \in Proper
<1>1. e.node \in {"literal", "access", "member", "call"}
  BY ExpressionFacts
<1>2. Builtin("INT32") \in Proper BY KindsFacts DEF Kinds
<1>3. CASE e.node = "literal" BY <1>2, <1>3 DEF type_precision
<1>4. CASE e.node = "access"
  <2>1. variableType(env, e.name) \in Proper
    BY <1>2 DEF variableType, ProperTables, IsTable
  <2> QED BY <1>4, <2>1 DEF type_precision
<1>5. CASE e.node = "member"
  <2>1. member(env, e.key).kind \in BackingKinds
    BY DefaultsProper DEF member, ProperTables, IsTable, ProperInfos
  <2> QED BY <1>5, <2>1, KindsFacts DEF type_precision
<1>6. CASE e.node = "call"
  <2>1. function(env, e.name).retType \in Proper
    BY DefaultsProper DEF function, ProperTables, IsTable, ProperFunctions
  <2> QED BY <1>6, <2>1 DEF type_precision
<1> QED BY <1>1, <1>3, <1>4, <1>5, <1>6

LEMMA FunctionProper ==
  ASSUME NEW env, ProperTables(env), NEW f
  PROVE  /\ function(env, f) \in ProperFunctions
         /\ function(env, f).retType \in Proper /\ function(env, f).id \in Nat
         /\ DOMAIN function(env, f).paramType \subseteq Nat \ {0}
         /\ \A i \in DOMAIN function(env, f).paramType : function(env, f).paramType[i] \in Proper
<1>1. function(env, f) \in ProperFunctions
  BY DefaultsProper DEF function, ProperTables, IsTable
<1> QED BY <1>1 DEF ProperFunctions

LEMMA ConvertedProper ==
  ASSUME NEW env, ProperTables(env), NEW s \in Statements, NEW to \in Proper,
         NEW i \in Converted(env, s)
  PROVE  /\ Expression(s, i) \in Simple \cup Calls
         /\ i # 0 => s.value \in Calls /\ i \in DOMAIN s.value.args /\ Expression(s, i) \in Simple
         /\ From(env, s, i) \in Proper
         /\ Into(env, s, to, i) \in Proper
<1>1. s.value \in Simple \cup Calls BY StatementFacts
<1>2. CASE i = 0
  <2>1. Expression(s, i) = s.value BY <1>2 DEF Expression
  <2> QED BY <1>1, <1>2, <2>1, PrecisionProper DEF From, Into
<1>3. CASE i # 0
  <2>1. s.value.node = "call" /\ i \in DOMAIN s.value.args
        /\ i \in DOMAIN function(env, s.value.name).paramType
    BY <1>3 DEF Converted, Compared
  <2>2. s.value \in Calls BY <1>1, <2>1, ExpressionFacts
  <2>3. Expression(s, i) \in Simple BY <1>3, <2>1, <2>2, CallFacts DEF Expression
  <2>4. Into(env, s, to, i) \in Proper BY <1>3, <2>1, FunctionProper DEF Into
  <2> QED BY <2>1, <2>2, <2>3, <2>4, PrecisionProper DEF From
<1> QED BY <1>2, <1>3

(* A check makes finitely many errors.                                     *)
LEMMA ErrorsFinite ==
  ASSUME NEW env, NEW s \in Statements, NEW to
  PROVE  IsFiniteSet(StatementErrors(env, s, to))
<1> DEFINE labels == {"undeclared", "unknown member", "unknown function", "argument count",
                      "conversion"}
<1>1. PICK n \in Nat : DOMAIN s.value.args \subseteq 0..n \/ s.value.node # "call"
  <2>1. CASE s.value.node # "call" BY <2>1
  <2>2. CASE s.value.node = "call"
    <3>1. s.value \in Calls BY <2>2, StatementFacts, ExpressionFacts
    <3>2. Len(s.value.args) \in Nat /\ DOMAIN s.value.args \subseteq 0..Len(s.value.args)
      BY <3>1, CallFacts
    <3> QED BY <3>2
  <2> QED BY <2>1, <2>2
<1>2. Converted(env, s) \subseteq 0..n
  BY <1>1 DEF Converted, Compared
<1>3. ExpressionErrors(env, s.value) \subseteq labels \X (0..n)
  <2>1. s.value.node \in {"literal", "access", "member", "call"}
    BY StatementFacts, ExpressionFacts
  <2>0. 0 \in 0..n OBVIOUS
  <2>3. {"undeclared", "unknown member", "unknown function", "argument count"} \subseteq labels
    OBVIOUS
  <2> HIDE DEF labels
  <2>2. \A x \in labels : <<x, 0>> \in labels \X (0..n) BY <2>0
  <2>4. CASE s.value.node = "literal" BY <2>4 DEF ExpressionErrors
  <2>5. CASE s.value.node = "access" BY <2>2, <2>3, <2>5 DEF ExpressionErrors
  <2>6. CASE s.value.node = "member" BY <2>2, <2>3, <2>6 DEF ExpressionErrors
  <2>7. CASE s.value.node = "call" BY <2>2, <2>3, <2>7 DEF ExpressionErrors
  <2> QED BY <2>1, <2>4, <2>5, <2>6, <2>7
<1>4. StatementErrors(env, s, to) \subseteq labels \X (0..n)
  <2>1. \A i \in 0..n : <<"conversion", i>> \in labels \X (0..n) OBVIOUS
  <2> HIDE DEF labels
  <2> QED BY <1>2, <1>3, <2>1 DEF StatementErrors
<1>5. IsFiniteSet(labels)
  <2>1. IsFiniteSet({}) BY FS_EmptySet
  <2>2. IsFiniteSet({} \cup {"undeclared"}) BY <2>1, FS_AddElement
  <2>3. IsFiniteSet(({} \cup {"undeclared"}) \cup {"unknown member"}) BY <2>2, FS_AddElement
  <2>4. IsFiniteSet((({} \cup {"undeclared"}) \cup {"unknown member"}) \cup {"unknown function"})
    BY <2>3, FS_AddElement
  <2>5. IsFiniteSet(((({} \cup {"undeclared"}) \cup {"unknown member"})
                       \cup {"unknown function"}) \cup {"argument count"})
    BY <2>4, FS_AddElement
  <2>6. IsFiniteSet((((({} \cup {"undeclared"}) \cup {"unknown member"})
                       \cup {"unknown function"}) \cup {"argument count"}) \cup {"conversion"})
    BY <2>5, FS_AddElement
  <2>7. labels = (((({} \cup {"undeclared"}) \cup {"unknown member"})
                       \cup {"unknown function"}) \cup {"argument count"}) \cup {"conversion"}
    OBVIOUS
  <2> QED BY <2>6, <2>7
<1>6. IsFiniteSet(labels \X (0..n))
  <2>1. IsFiniteSet(0..n) BY FS_Interval
  <2> HIDE DEF labels
  <2> QED BY <1>5, <2>1, FS_Product
<1> QED BY <1>4, <1>6, FS_Subset

(* The keys looked up are keys of the tables.                              *)
LEMMA LookedUpProper ==
  ASSUME NEW env, ProperTables(env), NEW s \in Statements, NEW to \in Proper
  PROVE  /\ FunctionsLookedUp(s) \subseteq Names
         /\ MembersLookedUp(env, s) \subseteq EnumKeys
         /\ EnumsLookedUp(env, s, to) \subseteq Names
         /\ TypesTranslated(env, s, to) \subseteq Proper
<1>1. s.value \in Simple \cup Calls BY StatementFacts
<1>2. FunctionsLookedUp(s) \subseteq Names
  BY <1>1, ExpressionFacts DEF FunctionsLookedUp
<1>3. MembersLookedUp(env, s) \subseteq EnumKeys
  <2>1. ASSUME NEW i \in Converted(env, s), Expression(s, i).node = "member"
        PROVE  Expression(s, i).key \in EnumKeys
    <3>1. Expression(s, i) \in Simple \cup Calls BY ConvertedProper
    <3> QED BY <2>1, <3>1, ExpressionFacts
  <2> QED BY <2>1 DEF MembersLookedUp
<1>4. ASSUME NEW t \in Proper, t.kind = "ENUM" PROVE t.name \in Names
  BY <1>4 DEF Proper
<1>5. EnumsLookedUp(env, s, to) \subseteq Names
  BY <1>4, ConvertedProper DEF EnumsLookedUp
<1>6. TypesTranslated(env, s, to) \subseteq Proper
  BY <1>1, PrecisionProper, ConvertedProper DEF TypesTranslated
<1> QED BY <1>2, <1>3, <1>5, <1>6

(* The code of a statement.                                                *)
ProperCode == [stmt : {"return", "call", "init"}, callee : SUBSET Nat,
               operands : Seq([node : {"literal", "access"}] \cup ProperInfos)]

LEMMA InstructionProper ==
  ASSUME NEW table, IsTable(table, EnumKeys, ProperInfos), NEW s \in Statements, NEW id \in Nat
  PROVE  Instruction(table, s, id) \in ProperCode
<1> DEFINE operands == [node : {"literal", "access"}] \cup ProperInfos
<1>1. ASSUME NEW e \in Simple PROVE Operand(table, e) \in operands
  <2>1. e.node \in {"literal", "access", "member"} BY SimpleFacts
  <2>2. CASE e.node # "member" BY <2>1, <2>2 DEF Operand
  <2>3. CASE e.node = "member" /\ e.key \in DOMAIN table BY <2>3 DEF Operand, IsTable
  <2>4. CASE e.node = "member" /\ e.key \notin DOMAIN table
    BY <2>4, DefaultsProper DEF Operand
  <2> QED BY <2>2, <2>3, <2>4
<1> HIDE DEF operands
<1>2. CASE s.value.node = "call"
  <2>1. s.value \in Calls BY <1>2, StatementFacts, ExpressionFacts
  <2>2. [i \in DOMAIN s.value.args |-> Operand(table, s.value.args[i])] \in Seq(operands)
    BY <1>1, <2>1, CallFacts
  <2> QED BY <1>2, <2>2, StatementFacts DEF Instruction, ProperCode, operands
<1>3. CASE s.value.node # "call"
  <2>1. s.value \in Simple BY <1>3, StatementFacts, ExpressionFacts
  <2>2. <<Operand(table, s.value)>> \in Seq(operands) BY <1>1, <2>1
  <2> QED BY <1>3, <2>2, StatementFacts DEF Instruction, ProperCode, operands
<1> QED BY <1>2, <1>3

(* Members, parameters and functions of a declaration.                     *)
LEMMA FirstNamedFacts ==
  ASSUME NEW S, NEW list \in Seq(S), NEW n \in NamesIn(list)
  PROVE  /\ First(Named(list, n)) \in DOMAIN list
         /\ FirstNamed(list, n) \in S
         /\ FirstNamed(list, n).name = n
<1>1. Named(list, n) \in SUBSET Nat BY DEF Named
<1>2. Named(list, n) # {} BY DEF Named, NamesIn
<1>3. First(Named(list, n)) \in Named(list, n) BY <1>1, <1>2, FirstFacts
<1> QED BY <1>3 DEF Named, FirstNamed

LEMMA BackingFacts ==
  \A enum : /\ BackingKind(enum) \in BackingKinds
            /\ BackingKind(enum) = "UINT8" =>
                 \A p \in DOMAIN enum.parts : ~(enum.parts[p].value > 255)
BY DEF BackingKind, BackingKinds

-----------------------------------------------------------------------------
(***************************************************************************)
(* What the parser builds.                                                 *)
(***************************************************************************)
DeclarationKinds == {"enum", "struct", "variable", "function"}

ProperParts(decl) ==
  CASE decl = "enum"     -> [name : Members, value : Nat]
    [] decl = "struct"   -> [word : AllWords, type : Proper]
    [] decl = "function" -> [name : Names, type : Proper]
    [] OTHER             -> {}

DeclarationsOf(decl) ==
  [decl : {decl}, name : Names, type : Proper, parts : Seq(ProperParts(decl)),
   body : Seq(Statements), defined : BOOLEAN]

Declared == UNION {DeclarationsOf(decl) : decl \in DeclarationKinds}

CurrentTyped ==
  /\ stage \in {"root", "register", "analyse", "globals", "translate"} => current = NoDeclaration
  /\ stage \in {"enum", "struct"} => current \in DeclarationsOf(stage)
  /\ stage \in {"parameters", "body"} => current \in DeclarationsOf("function")
  /\ current = NoDeclaration \/ current \in Declared
  /\ stage = "body" => current.defined

ParserTyped ==
  /\ stage \in Stages /\ verdict \in Verdicts
  /\ stage = "ended" => verdict # "none"
  /\ verdict # "none" => stage = "ended"
  /\ IsTable(typeTable, AllWords, Proper) /\ DOMAIN builtinTypes \subseteq DOMAIN typeTable
  /\ file \in Seq(Declared)
  /\ CurrentTyped
  /\ counter \in Nat /\ ahead \in BOOLEAN /\ parts \in 0..MaxParts

LEMMA DeclaredFacts ==
  ASSUME NEW d \in Declared
  PROVE  /\ d.decl \in DeclarationKinds
         /\ d \in DeclarationsOf(d.decl)
         /\ d.name \in Names /\ d.type \in Proper /\ d.defined \in BOOLEAN
         /\ d.parts \in Seq(ProperParts(d.decl)) /\ d.body \in Seq(Statements)
<1>1. PICK c \in DeclarationKinds : d \in DeclarationsOf(c)
  BY DEF Declared
<1> QED BY <1>1 DEF DeclarationsOf

LEMMA BuiltinsProper ==
  /\ Untyped \in Proper
  /\ DOMAIN builtinTypes \subseteq AllWords
  /\ \A w \in DOMAIN builtinTypes : builtinTypes[w] \in Proper
  /\ \A w \in DOMAIN builtinTypes : builtinTypes[w].kind \notin {"ENUM", "STRUCT"}
<1>1. \A k \in Kinds \ {"ENUM", "STRUCT"} : Builtin(k) \in Proper /\ Builtin(k).kind = k
  BY DEF Builtin, Proper, Types, NoName
<1>2. Untyped \in Proper
  BY <1>1 DEF Untyped, Kinds
<1>3. ASSUME NEW w \in DOMAIN builtinTypes
      PROVE  \E k \in Kinds \ {"ENUM", "STRUCT"} : builtinTypes[w] = Builtin(k)
  <2>1. w \in {"int32", "uint32", "int64", "uint64", "int16", "uint16", "int8", "uint8",
               "float32", "float64", "vaddr", "paddr", "void"}
    BY DEF builtinTypes
  <2>2. builtinTypes[w] =
          Builtin(CASE w = "int32"   -> "INT32"   [] w = "uint32"  -> "UINT32"
               [] w = "int64"   -> "INT64"   [] w = "uint64"  -> "UINT64"
               [] w = "int16"   -> "INT16"   [] w = "uint16"  -> "UINT16"
               [] w = "int8"    -> "INT8"    [] w = "uint8"   -> "UINT8"
               [] w = "float32" -> "FLOAT32" [] w = "float64" -> "FLOAT64"
               [] w = "vaddr"   -> "VADDR"   [] w = "paddr"   -> "PADDR"
               [] w = "void"    -> "VOID")
    BY <2>1 DEF builtinTypes
  <2>3. (CASE w = "int32"   -> "INT32"   [] w = "uint32"  -> "UINT32"
               [] w = "int64"   -> "INT64"   [] w = "uint64"  -> "UINT64"
               [] w = "int16"   -> "INT16"   [] w = "uint16"  -> "UINT16"
               [] w = "int8"    -> "INT8"    [] w = "uint8"   -> "UINT8"
               [] w = "float32" -> "FLOAT32" [] w = "float64" -> "FLOAT64"
               [] w = "vaddr"   -> "VADDR"   [] w = "paddr"   -> "PADDR"
               [] w = "void"    -> "VOID") \in Kinds \ {"ENUM", "STRUCT"}
    BY <2>1 DEF Kinds
  <2> QED BY <2>2, <2>3
<1> QED BY <1>1, <1>2, <1>3 DEF AllWords

LEMMA PushDeclared ==
  ASSUME file \in Seq(Declared), NEW d \in Declared, Push(d)
  PROVE  /\ file' \in Seq(Declared)
         /\ stage' = "root" /\ current' = NoDeclaration
BY DEF Push

(* The declaration being read, with one part more.                         *)
LEMMA AddDeclared ==
  ASSUME NEW c \in DeclarationKinds, current \in DeclarationsOf(c),
         NEW part \in ProperParts(c), Add(part)
  PROVE  current' \in DeclarationsOf(c)
<1>1. Append(current.parts, part) \in Seq(ProperParts(c))
  BY DEF DeclarationsOf
<1> QED BY <1>1 DEF Add, DeclarationsOf

LEMMA DeclarationTyped ==
  ASSUME NEW c \in DeclarationKinds, NEW n \in Names, NEW t \in Proper
  PROVE  Declaration(c, n, t) \in DeclarationsOf(c)
BY DEF Declaration, DeclarationsOf

LEMMA KindsDeclared == \A c \in DeclarationKinds : DeclarationsOf(c) \subseteq Declared
BY DEF Declared

LEMMA NamedTypesProper == \A n \in Names : EnumType(n) \in Proper /\ StructType(n) \in Proper
BY DEF EnumType, StructType, Proper, Types, Kinds

LEMMA OpenTyped ==
  ASSUME ParserTyped, NEW c \in {"enum", "struct", "function"}, NEW d \in DeclarationsOf(c),
         NEW at, at = IF c = "function" THEN "parameters" ELSE c, Open(d, at),
         counter' \in Nat, ahead' \in BOOLEAN
  PROVE  ParserTyped'
<1>1. d \in Declared BY KindsDeclared DEF DeclarationKinds
<1>2. stage = "root" /\ verdict = "none" BY DEF Open, ParserTyped
<1>3. CurrentTyped' BY <1>1 DEF Open, CurrentTyped
<1>4. parts' \in 0..MaxParts BY DeclarationsAssumption DEF Open, Count, ParserTyped
<1>5. stage' \in Stages BY DEF Open, Stages, ParserStages
<1> QED BY <1>2, <1>3, <1>4, <1>5 DEF Open, ParserTyped, IsTable

LEMMA PartTyped ==
  ASSUME ParserTyped, NEW c \in {"enum", "struct", "function"},
         stage = IF c = "function" THEN "parameters" ELSE c,
         NEW part \in ProperParts(c), Count, Add(part),
         UNCHANGED <<stage, verdict, file, ahead>>, counter' \in Nat,
         IsTable(typeTable', AllWords, Proper), DOMAIN typeTable \subseteq DOMAIN typeTable'
  PROVE  ParserTyped'
<1>1. c \in DeclarationKinds /\ current \in DeclarationsOf(c)
  BY DEF ParserTyped, CurrentTyped, DeclarationKinds
<1>2. current' \in DeclarationsOf(c) /\ current' \in Declared
  BY <1>1, AddDeclared, KindsDeclared
<1>3. CurrentTyped' BY <1>1, <1>2 DEF CurrentTyped
<1>4. parts' \in 0..MaxParts BY DeclarationsAssumption DEF Count, ParserTyped
<1> QED BY <1>3, <1>4 DEF ParserTyped

LEMMA EndTyped ==
  ASSUME ParserTyped, stage \in ParserStages, NEW d \in Declared, Push(d),
         verdict' = verdict, counter' = counter, ahead' \in BOOLEAN, parts' \in 0..MaxParts,
         IsTable(typeTable', AllWords, Proper), DOMAIN typeTable \subseteq DOMAIN typeTable'
  PROVE  ParserTyped'
<1>1. file' \in Seq(Declared) /\ stage' = "root" /\ current' = NoDeclaration
  BY PushDeclared DEF ParserTyped
<1>2. verdict = "none" BY DEF ParserTyped, ParserStages
<1>3. CurrentTyped' BY <1>1 DEF CurrentTyped
<1> QED BY <1>1, <1>2, <1>3 DEF ParserTyped, Stages, ParserStages

LEMMA WordTyped ==
  ASSUME ParserTyped, NEW w
  PROVE  wordType(w) \in Proper
BY BuiltinsProper DEF wordType, ParserTyped, IsTable

(* Every step of the parser keeps the types of what it builds.             *)
LEMMA ParserKeepsTypes == ParserTyped /\ ParserNext => ParserTyped'
<1> SUFFICES ASSUME ParserTyped, ParserNext PROVE ParserTyped'
  OBVIOUS
<1> USE DEF ParserStages
<1>0. /\ IsTable(typeTable, AllWords, Proper)
      /\ parts \in 0..MaxParts /\ counter \in Nat /\ ahead \in BOOLEAN
  BY DEF ParserTyped
<1>1. ASSUME NEW n \in NamesFor["enum"], BeginEnum(n) PROVE ParserTyped'
  <2>1. n \in Names BY DeclarationsAssumption
  <2>2. Declaration("enum", n, EnumType(n)) \in DeclarationsOf("enum")
    BY <2>1, DeclarationTyped, NamedTypesProper DEF DeclarationKinds
  <2> QED BY <1>0, <1>1, <2>2, OpenTyped DEF BeginEnum
<1>2. ASSUME NEW m \in Members, NEW value \in Numbers \cup {counter}, EnumMember(m, value)
      PROVE  ParserTyped'
  <2>1. value \in Nat BY <1>0, DeclarationsAssumption
  <2>2. Enumerator(m, value) \in ProperParts("enum")
    BY <2>1 DEF Enumerator, ProperParts
  <2> QED BY <1>0, <1>2, <2>1, <2>2, PartTyped DEF EnumMember
<1>3. CASE EnumValueNoNumber
  BY <1>3 DEF EnumValueNoNumber, parser, ParserTyped, CurrentTyped, IsTable, Stages, Verdicts
<1>4. CASE EndEnum
  <2>1. current \in DeclarationsOf("enum") /\ current \in Declared
    BY <1>4, KindsDeclared DEF EndEnum, ParserTyped, CurrentTyped, DeclarationKinds
  <2>2. current.name \in Names BY <2>1, DeclaredFacts
  <2>3. EnumType(current.name) \in Proper /\ {current.name} \in SUBSET AllWords
    BY <2>2, NamedTypesProper DEF AllWords
  <2>4. IsTable(typeTable', AllWords, Proper)
    BY <1>0, <1>4, <2>3, EmplaceTyped DEF EndEnum
  <2>5. DOMAIN typeTable \subseteq DOMAIN typeTable'
    BY <1>4 DEF EndEnum, emplace
  <2> QED BY <1>0, <1>4, <2>1, <2>4, <2>5, EndTyped DEF EndEnum
<1>5. ASSUME NEW n \in NamesFor["struct"], BeginStruct(n) PROVE ParserTyped'
  <2>1. n \in Names BY DeclarationsAssumption
  <2>2. Declaration("struct", n, StructType(n)) \in DeclarationsOf("struct")
    BY <2>1, DeclarationTyped, NamedTypesProper DEF DeclarationKinds
  <2> QED BY <1>0, <1>5, <2>2, OpenTyped DEF BeginStruct
<1>6. ASSUME NEW w \in WordsFor["field"], StructField(w) PROVE ParserTyped'
  <2>1. w \in AllWords BY DeclarationsAssumption
  <2>2. Field(w, wordType(w)) \in ProperParts("struct")
    BY <2>1, WordTyped DEF Field, ProperParts
  <2>3. IsTable(typeTable', AllWords, Proper)
    BY <1>0, <1>6, <2>1, EmplaceTyped, BuiltinsProper DEF StructField
  <2>4. DOMAIN typeTable \subseteq DOMAIN typeTable'
    BY <1>6 DEF StructField, emplace
  <2> QED BY <1>0, <1>6, <2>2, <2>3, <2>4, PartTyped DEF StructField
<1>7. CASE EndStruct
  <2>1. current \in DeclarationsOf("struct") /\ current \in Declared
    BY <1>7, KindsDeclared DEF EndStruct, ParserTyped, CurrentTyped, DeclarationKinds
  <2>2. current.name \in Names BY <2>1, DeclaredFacts
  <2>3. StructType(current.name) \in Proper /\ {current.name} \in SUBSET AllWords
    BY <2>2, NamedTypesProper DEF AllWords
  <2>4. IsTable(typeTable', AllWords, Proper)
    BY <1>0, <1>7, <2>3, EmplaceTyped DEF EndStruct
  <2>5. DOMAIN typeTable \subseteq DOMAIN typeTable'
    BY <1>7 DEF EndStruct, emplace
  <2> QED BY <1>0, <1>7, <2>1, <2>4, <2>5, EndTyped DEF EndStruct
<1>8. CASE RunOffEnd
  <2>1. IsTable(typeTable', AllWords, Proper)
    <3>1. {EndMark} \in SUBSET AllWords BY DEF AllWords
    <3> QED BY <1>0, <1>8, <3>1, EmplaceTyped, BuiltinsProper DEF RunOffEnd
  <2>2. DOMAIN typeTable \subseteq DOMAIN typeTable'
    BY <1>8 DEF RunOffEnd, emplace
  <2> QED BY <1>8, <2>1, <2>2 DEF RunOffEnd, ParserTyped, CurrentTyped, Stages, Verdicts
<1>9. ASSUME NEW w \in WordsFor["variable"], NEW n \in NamesFor["variable"], NEW body,
             body = <<>> \/ \E e \in Initials : body = <<Statement("init", e)>>,
             Global(w, n, body)
      PROVE  ParserTyped'
  <2>1. n \in Names /\ typeTable[w] \in Proper
    BY <1>0, <1>9, DeclarationsAssumption DEF Global, StartsWith, IsTable
  <2>2. body \in Seq(Statements)
    <3>1. ASSUME NEW e \in Initials PROVE Statement("init", e) \in Statements
      BY DeclarationsAssumption DEF Statement, Statements
    <3>2. CASE body = <<>> BY <3>2
    <3>3. CASE \E e \in Initials : body = <<Statement("init", e)>>
      <4>1. PICK s \in Statements : body = <<s>> BY <3>1, <3>3
      <4> QED BY <4>1
    <3> QED BY <1>9, <3>2, <3>3
  <2>3. Declaration("variable", n, typeTable[w]) \in DeclarationsOf("variable")
    BY <2>1, DeclarationTyped DEF DeclarationKinds
  <2> DEFINE d == [Declaration("variable", n, typeTable[w]) EXCEPT !.body = body]
  <2>4. d \in Declared
    BY <2>2, <2>3, KindsDeclared DEF DeclarationsOf, DeclarationKinds
  <2>5. stage = "root" /\ Push(d) /\ parts' \in 0..MaxParts
    BY <1>0, <1>9, DeclarationsAssumption DEF Global, Count
  <2> QED BY <1>0, <1>9, <2>4, <2>5, EndTyped DEF Global
<1>10. ASSUME NEW w \in WordsFor["function"], NEW n \in NamesFor["function"], BeginFunction(w, n)
       PROVE  ParserTyped'
  <2>1. n \in Names /\ typeTable[w] \in Proper
    BY <1>0, <1>10, DeclarationsAssumption DEF BeginFunction, StartsWith, IsTable
  <2>2. Declaration("function", n, typeTable[w]) \in DeclarationsOf("function")
    BY <2>1, DeclarationTyped DEF DeclarationKinds
  <2> QED BY <1>0, <1>10, <2>2, OpenTyped DEF BeginFunction
<1>11. ASSUME NEW w \in WordsFor["parameter"], NEW n \in NamesFor["parameter"],
              FunctionParameter(w, n)
       PROVE  ParserTyped'
  <2>1. n \in Names /\ typeTable[w] \in Proper
    BY <1>0, <1>11, DeclarationsAssumption DEF FunctionParameter, IsTable
  <2>2. Parameter(n, typeTable[w]) \in ProperParts("function")
    BY <2>1 DEF Parameter, ProperParts
  <2> QED BY <1>0, <1>11, <2>2, PartTyped DEF FunctionParameter
<1>12. CASE BeginBody
  <2>1. current \in DeclarationsOf("function")
    BY <1>12 DEF BeginBody, ParserTyped, CurrentTyped
  <2>2. current' \in DeclarationsOf("function") /\ current'.defined
    BY <1>12, <2>1 DEF BeginBody, DeclarationsOf
  <2>3. current' \in Declared BY <2>2, KindsDeclared DEF DeclarationKinds
  <2>4. CurrentTyped' BY <1>12, <2>2, <2>3 DEF BeginBody, CurrentTyped
  <2> QED BY <1>12, <2>4 DEF BeginBody, ParserTyped, Stages
<1>13. ASSUME NEW s \in Sentences, Sentence(s) PROVE ParserTyped'
  <2>1. current \in DeclarationsOf("function") /\ current.defined
    BY <1>13 DEF Sentence, ParserTyped, CurrentTyped
  <2>2. Append(current.body, s) \in Seq(Statements)
    BY <2>1, DeclarationsAssumption DEF DeclarationsOf
  <2>3. current' \in DeclarationsOf("function") /\ current'.defined
    BY <1>13, <2>1, <2>2 DEF Sentence, DeclarationsOf
  <2>4. current' \in Declared BY <2>3, KindsDeclared DEF DeclarationKinds
  <2>5. CurrentTyped' BY <1>13, <2>3, <2>4 DEF Sentence, CurrentTyped
  <2>6. parts' \in 0..MaxParts BY <1>0, <1>13, DeclarationsAssumption DEF Sentence, Count
  <2> QED BY <1>13, <2>5, <2>6 DEF Sentence, ParserTyped
<1>14. CASE EndFunction \/ Prototype
  <2>1. current \in DeclarationsOf("function") /\ current \in Declared
    BY <1>14, KindsDeclared
       DEF EndFunction, Prototype, ParserTyped, CurrentTyped, DeclarationKinds
  <2> QED BY <1>0, <1>14, <2>1, EndTyped DEF EndFunction, Prototype
<1>15. CASE Refuse
  BY <1>15 DEF Refuse, parser, ParserTyped, CurrentTyped, IsTable, Stages, Verdicts
<1>16. CASE EndOfFile
  BY <1>16 DEF EndOfFile, parser, ParserTyped, CurrentTyped, IsTable, Stages
<1> QED BY <1>1, <1>2, <1>3, <1>4, <1>5, <1>6, <1>7, <1>8, <1>9, <1>10, <1>11, <1>12, <1>13,
           <1>14, <1>15, <1>16 DEF ParserNext

-----------------------------------------------------------------------------
(***************************************************************************)
(* What words mean.  The definitions of TypesAsClaimed as operators on the *)
(* file read, the declaration being read and the table, to compare them    *)
(* before a step and after it.                                             *)
(***************************************************************************)
FieldWords(d) == IF d.decl = "struct" THEN {d.parts[p].word : p \in DOMAIN d.parts} ELSE {}

FieldIn(f, c, k, w) == w \in FieldWords(IF k \in DOMAIN f THEN f[k] ELSE c)
NameIn(f, k, w)     == k \in DOMAIN f /\ f[k].decl \in {"enum", "struct"} /\ f[k].name = w
ClaimsIn(f, c, w)   == {k \in 1..Len(f)+1 : FieldIn(f, c, k, w) \/ NameIn(f, k, w)}

MeaningIn(f, c, w) ==
  IF FieldIn(f, c, First(ClaimsIn(f, c, w)), w) THEN Untyped
  ELSE f[First(ClaimsIn(f, c, w))].type

ClaimedIn(f, c, table) ==
  /\ DOMAIN table = DOMAIN builtinTypes \cup {w \in AllWords : ClaimsIn(f, c, w) # {}}
  /\ \A w \in DOMAIN table :
       table[w] = IF w \in DOMAIN builtinTypes THEN builtinTypes[w] ELSE MeaningIn(f, c, w)

LEMMA ClaimsFacts ==
  ASSUME NEW f \in Seq(Declared), NEW c, NEW w
  PROVE  /\ ClaimsIn(f, c, w) \in SUBSET Nat
         /\ Len(f) \in Nat
         /\ \A k \in ClaimsIn(f, c, w) : k \in 1..Len(f)+1
         /\ ClaimsIn(f, c, w) # {} => First(ClaimsIn(f, c, w)) \in ClaimsIn(f, c, w)
<1>1. Len(f) \in Nat OBVIOUS
<1>2. ClaimsIn(f, c, w) \in SUBSET Nat BY <1>1 DEF ClaimsIn
<1>3. \A k \in ClaimsIn(f, c, w) : k \in 1..Len(f)+1 BY DEF ClaimsIn
<1> QED BY <1>1, <1>2, <1>3, FirstFacts

(* The definitions say the same, now ...                                   *)
LEMMA ClaimedNow ==
  file \in Seq(Declared) =>
    (TypesAsClaimed <=> (verdict # "undefined" => ClaimedIn(file, current, typeTable)))
<1> SUFFICES ASSUME file \in Seq(Declared)
    PROVE  TypesAsClaimed <=> (verdict # "undefined" => ClaimedIn(file, current, typeTable))
  OBVIOUS
<1>1. /\ DOMAIN Reading = 1..Len(file)+1
      /\ \A k \in 1..Len(file) : Reading[k] = file[k]
      /\ Reading[Len(file)+1] = current
      /\ DOMAIN file = 1..Len(file) /\ Len(file) \in Nat
  BY DEF Reading
<1>2. ASSUME NEW k \in 1..Len(file)+1, NEW w
      PROVE  /\ ByField(k, w) <=> FieldIn(file, current, k, w)
             /\ ByName(k, w) <=> NameIn(file, k, w)
  <2>1. Reading[k] = IF k \in DOMAIN file THEN file[k] ELSE current
    BY <1>1
  <2> QED BY <2>1 DEF ByField, FieldIn, FieldWords, ByName, NameIn
<1>3. ASSUME NEW w PROVE Claims(w) = ClaimsIn(file, current, w)
  BY <1>1, <1>2 DEF Claims, ClaimsIn
<1>4. ASSUME NEW w, Claims(w) # {}
      PROVE  MeaningIn(file, current, w) =
               IF ByField(First(Claims(w)), w) THEN Untyped ELSE Reading[First(Claims(w))].type
  <2> DEFINE k == First(Claims(w))
  <2>1. k \in 1..Len(file)+1 /\ k \in Claims(w)
    BY <1>3, <1>4, ClaimsFacts
  <2>2. ByField(k, w) <=> FieldIn(file, current, k, w)
    BY <1>2, <2>1
  <2>3. ~ByField(k, w) => Reading[k] = file[k]
    BY <1>1, <1>2, <2>1 DEF Claims, ByName
  <2> QED BY <1>3, <2>2, <2>3 DEF MeaningIn
<1>5. (\A w \in DOMAIN typeTable :
         w \in DOMAIN builtinTypes \/ (w \in AllWords /\ Claims(w) # {}))
      => ((\A w \in DOMAIN typeTable :
             typeTable[w] = IF w \in DOMAIN builtinTypes THEN builtinTypes[w]
                            ELSE IF ByField(First(Claims(w)), w) THEN Untyped
                            ELSE Reading[First(Claims(w))].type)
          <=> (\A w \in DOMAIN typeTable :
             typeTable[w] = IF w \in DOMAIN builtinTypes THEN builtinTypes[w]
                            ELSE MeaningIn(file, current, w)))
  BY <1>4
<1> QED BY <1>3, <1>5 DEF TypesAsClaimed, ClaimedIn

(* ... and after a step.                                                   *)
LEMMA ClaimedThen ==
  file' \in Seq(Declared) =>
    (TypesAsClaimed' <=> (verdict' # "undefined" => ClaimedIn(file', current', typeTable')))
<1>1. (file \in Seq(Declared) =>
        (TypesAsClaimed <=> (verdict # "undefined" => ClaimedIn(file, current, typeTable))))'
  BY ClaimedNow, PTL
<1> QED BY <1>1

(* Another part without a field word, or another declaration without one.  *)
LEMMA ClaimedSame ==
  ASSUME NEW f \in Seq(Declared), NEW c, NEW d, NEW table,
         FieldWords(c) = FieldWords(d), ClaimedIn(f, c, table)
  PROVE  ClaimedIn(f, d, table)
<1>1. \A k, w : FieldIn(f, c, k, w) <=> FieldIn(f, d, k, w)
  BY DEF FieldIn
<1>2. \A w : ClaimsIn(f, c, w) = ClaimsIn(f, d, w)
  BY <1>1 DEF ClaimsIn
<1>3. \A w : MeaningIn(f, c, w) = MeaningIn(f, d, w)
  BY <1>1, <1>2 DEF MeaningIn
<1> QED BY <1>2, <1>3 DEF ClaimedIn

(* A field claims its word for the last place.                             *)
LEMMA ClaimedField ==
  ASSUME NEW f \in Seq(Declared), NEW c, NEW d, NEW table, NEW v \in AllWords,
         FieldWords(d) = FieldWords(c) \cup {v}, ClaimedIn(f, c, table)
  PROVE  ClaimedIn(f, d, emplace(table, {v}, Untyped))
<1> DEFINE n == Len(f) + 1
<1>1. n \in Nat /\ DOMAIN f = 1..Len(f) /\ Len(f) \in Nat OBVIOUS
<1>2. \A w : \A k \in 1..Len(f) : FieldIn(f, c, k, w) <=> FieldIn(f, d, k, w)
  BY <1>1 DEF FieldIn
<1>3. \A w : FieldIn(f, d, n, w) <=> FieldIn(f, c, n, w) \/ w = v
  BY <1>1 DEF FieldIn
<1>4. ASSUME NEW w, w # v
      PROVE  ClaimsIn(f, d, w) = ClaimsIn(f, c, w) /\ MeaningIn(f, d, w) = MeaningIn(f, c, w)
  <2>1. \A k \in 1..Len(f)+1 : FieldIn(f, c, k, w) <=> FieldIn(f, d, k, w)
    BY <1>1, <1>2, <1>3, <1>4
  <2>2. ClaimsIn(f, d, w) = ClaimsIn(f, c, w)
    BY <2>1 DEF ClaimsIn
  <2>3. \A k : FieldIn(f, c, k, w) <=> FieldIn(f, d, k, w)
    <3>1. ASSUME NEW k, k \notin 1..Len(f) PROVE FieldIn(f, c, k, w) <=> FieldIn(f, d, k, w)
      BY <1>1, <1>4, <3>1 DEF FieldIn
    <3> QED BY <1>2, <3>1
  <2> QED BY <2>2, <2>3 DEF MeaningIn
<1>5. ClaimsIn(f, d, v) = ClaimsIn(f, c, v) \cup {n}
  <2>1. \A k \in 1..Len(f)+1 : k = n \/ k \in 1..Len(f) BY <1>1
  <2>2. n \in 1..Len(f)+1 BY <1>1
  <2> QED BY <1>2, <1>3, <2>1, <2>2 DEF ClaimsIn
<1>6. CASE ClaimsIn(f, c, v) = {}
  <2>1. First(ClaimsIn(f, d, v)) = n BY <1>1, <1>5, <1>6, FirstOfMore
  <2>2. MeaningIn(f, d, v) = Untyped BY <1>3, <2>1 DEF MeaningIn
  <2>3. v \in DOMAIN table => v \in DOMAIN builtinTypes
    BY <1>6 DEF ClaimedIn
  <2> QED BY <1>4, <1>5, <2>2, <2>3, EmplaceFacts DEF ClaimedIn, emplace
<1>7. CASE ClaimsIn(f, c, v) # {}
  <2> DEFINE S == ClaimsIn(f, c, v)
  <2>1. S \in SUBSET Nat /\ \A k \in S : k <= n
    BY <1>1, ClaimsFacts
  <2>2. First(S \cup {n}) = First(S) /\ First(S) \in 1..Len(f)+1 /\ First(S) \in S
    BY <1>1, <1>7, <2>1, FirstOfMore, ClaimsFacts
  <2>3. FieldIn(f, c, First(S), v) <=> FieldIn(f, d, First(S), v)
    <3>1. CASE First(S) \in 1..Len(f) BY <1>2, <3>1
    <3>2. CASE First(S) = n
      <4>1. FieldIn(f, c, n, v) BY <1>1, <2>2, <3>2 DEF ClaimsIn, NameIn
      <4> QED BY <1>3, <3>2, <4>1
    <3> QED BY <1>1, <2>2, <3>1, <3>2
  <2>4. MeaningIn(f, d, v) = MeaningIn(f, c, v)
    BY <1>5, <2>2, <2>3 DEF MeaningIn
  <2>5. v \in DOMAIN table BY <1>7 DEF ClaimedIn
  <2>6. emplace(table, {v}, Untyped) = [k \in DOMAIN table |-> table[k]]
    BY <2>5 DEF emplace
  <2> QED BY <1>4, <1>5, <1>7, <2>4, <2>6 DEF ClaimedIn
<1> QED BY <1>6, <1>7

(* A declaration is finished; an enum and a struct claim their names.      *)
LEMMA ClaimedPush ==
  ASSUME NEW f \in Seq(Declared), NEW c, NEW d \in Declared, NEW table,
         FieldWords(c) = FieldWords(d), ClaimedIn(f, c, table)
  PROVE  ClaimedIn(Append(f, d), NoDeclaration,
                   IF d.decl \in {"enum", "struct"} THEN emplace(table, {d.name}, d.type)
                   ELSE table)
<1> DEFINE n == Len(f) + 1  g == Append(f, d)  e == NoDeclaration
           v == d.name  named == d.decl \in {"enum", "struct"}
<1>1. /\ n \in Nat /\ DOMAIN f = 1..Len(f) /\ Len(f) \in Nat
      /\ g \in Seq(Declared) /\ Len(g) = n /\ DOMAIN g = 1..n
      /\ \A k \in 1..Len(f) : g[k] = f[k]
      /\ g[n] = d
  OBVIOUS
<1>2. v \in AllWords BY DeclaredFacts DEF AllWords
<1>3. FieldWords(e) = {} BY DEF FieldWords, NoDeclaration, Declaration
<1> HIDE DEF g, e
<1>4. ASSUME NEW k \in 1..n, NEW w
      PROVE  FieldIn(g, e, k, w) <=> FieldIn(f, c, k, w)
  BY <1>1 DEF FieldIn
<1>5. ASSUME NEW w PROVE ~FieldIn(g, e, n + 1, w)
  BY <1>1, <1>3 DEF FieldIn
<1>6. ASSUME NEW k \in 1..n+1, NEW w
      PROVE  NameIn(g, k, w) <=> NameIn(f, k, w) \/ (k = n /\ named /\ w = v)
  BY <1>1 DEF NameIn
<1>7. ASSUME NEW w, ~(named /\ w = v)
      PROVE  ClaimsIn(g, e, w) = ClaimsIn(f, c, w)
  <2>1. \A k \in 1..n+1 : k \in 1..n \/ k = n + 1 BY <1>1
  <2>2. ~NameIn(f, n + 1, w) BY <1>1 DEF NameIn
  <2>3. 1..Len(g)+1 = 1..n+1 /\ 1..Len(f)+1 = 1..n /\ 1..n \subseteq 1..n+1 BY <1>1
  <2> QED BY <1>4, <1>5, <1>6, <1>7, <2>1, <2>2, <2>3 DEF ClaimsIn
<1>8. ASSUME named PROVE ClaimsIn(g, e, v) = ClaimsIn(f, c, v) \cup {n}
  <2>1. \A k \in 1..n+1 : k \in 1..n \/ k = n + 1 BY <1>1
  <2>2. ~NameIn(f, n + 1, v) /\ n \in 1..n+1 /\ n + 1 # n BY <1>1 DEF NameIn
  <2>3. 1..Len(g)+1 = 1..n+1 /\ 1..Len(f)+1 = 1..n /\ 1..n \subseteq 1..n+1 BY <1>1
  <2> QED BY <1>4, <1>5, <1>6, <1>8, <2>1, <2>2, <2>3 DEF ClaimsIn
<1>9. ASSUME NEW w, NEW k \in ClaimsIn(f, c, w)
      PROVE  /\ FieldIn(g, e, k, w) <=> FieldIn(f, c, k, w)
             /\ ~FieldIn(f, c, k, w) => g[k] = f[k]
  <2>1. k \in 1..n BY ClaimsFacts
  <2>2. ~FieldIn(f, c, k, w) => k \in DOMAIN f BY DEF ClaimsIn, NameIn
  <2> QED BY <1>1, <1>4, <2>1, <2>2
<1>10. ASSUME NEW w, ClaimsIn(f, c, w) # {}
       PROVE  MeaningIn(g, e, w) = MeaningIn(f, c, w)
  <2> DEFINE S == ClaimsIn(f, c, w)
  <2>1. S \in SUBSET Nat /\ (\A k \in S : k <= n) /\ First(S) \in S
    BY <1>1, <1>10, ClaimsFacts
  <2>2. First(ClaimsIn(g, e, w)) = First(S)
    <3>1. CASE ~(named /\ w = v) BY <1>7, <3>1
    <3>2. CASE named /\ w = v
      <4>1. First(S \cup {n}) = First(S) BY <1>1, <1>10, <2>1, FirstOfMore
      <4> QED BY <1>8, <3>2, <4>1
    <3> QED BY <3>1, <3>2
  <2> QED BY <1>9, <2>1, <2>2 DEF MeaningIn
<1>11. ASSUME named, ClaimsIn(f, c, v) = {} PROVE MeaningIn(g, e, v) = d.type
  <2>1. First(ClaimsIn(g, e, v)) = n BY <1>1, <1>8, <1>11, FirstOfMore
  <2>2. ~FieldIn(f, c, n, v) BY <1>1, <1>11 DEF ClaimsIn
  <2>3. ~FieldIn(g, e, n, v) BY <1>1, <1>4, <2>2
  <2> QED BY <1>1, <2>1, <2>3 DEF MeaningIn
<1> DEFINE after == IF named THEN emplace(table, {v}, d.type) ELSE table
<1> SUFFICES ClaimedIn(g, e, after) BY DEF g, e
<1>12. CASE ~named
  BY <1>7, <1>10, <1>12 DEF ClaimedIn
<1>13. CASE named
  <2>1. DOMAIN after = {v} \cup DOMAIN table BY <1>13 DEF emplace
  <2>2. DOMAIN after = DOMAIN builtinTypes \cup {w \in AllWords : ClaimsIn(g, e, w) # {}}
    BY <1>2, <1>7, <1>8, <1>13, <2>1 DEF ClaimedIn
  <2>3. ASSUME NEW w \in DOMAIN after
        PROVE  after[w] = IF w \in DOMAIN builtinTypes THEN builtinTypes[w] ELSE MeaningIn(g, e, w)
    <3>1. after[w] = IF w \in DOMAIN table THEN table[w] ELSE d.type
      BY <1>13, <2>1, <2>3 DEF emplace
    <3>2. CASE w \in DOMAIN table
      BY <1>10, <3>1, <3>2 DEF ClaimedIn
    <3>3. CASE w \notin DOMAIN table
      <4>1. w = v /\ w \notin DOMAIN builtinTypes /\ ClaimsIn(f, c, v) = {}
        BY <1>2, <2>1, <2>3, <3>3 DEF ClaimedIn
      <4> QED BY <1>11, <1>13, <3>1, <3>3, <4>1
    <3> QED BY <3>2, <3>3
  <2> HIDE DEF after
  <2> QED BY <2>2, <2>3 DEF ClaimedIn
<1> QED BY <1>12, <1>13

(* An enum or a struct has its own name in its type.                       *)
SelfNamed ==
  /\ current.decl = "enum"   => current.type = EnumType(current.name)
  /\ current.decl = "struct" => current.type = StructType(current.name)

LEMMA StageFacts ==
  ASSUME ParserTyped
  PROVE  /\ file \in Seq(Declared) /\ Len(file) \in Nat /\ DOMAIN file = 1..Len(file)
         /\ stage \in ParserStages => verdict = "none"
         /\ stage = "root" => current = NoDeclaration
         /\ stage = "enum" => current \in DeclarationsOf("enum") /\ current.decl = "enum"
         /\ stage = "struct" => current \in DeclarationsOf("struct") /\ current.decl = "struct"
         /\ stage \in {"parameters", "body"} =>
              current \in DeclarationsOf("function") /\ current.decl = "function"
BY DEF ParserTyped, CurrentTyped, ParserStages, DeclarationsOf

LEMMA FieldWordsFacts ==
  /\ \A d : d.decl # "struct" => FieldWords(d) = {}
  /\ \A c, n, t : FieldWords(Declaration(c, n, t)) = {}
  /\ \A c, n, t : Declaration(c, n, t).decl = c
  /\ FieldWords(NoDeclaration) = {}
  /\ NoDeclaration.decl = "none"
BY DEF FieldWords, Declaration, NoDeclaration

LEMMA ParserKeepsNames == ParserTyped /\ SelfNamed /\ ParserNext => SelfNamed'
<1> SUFFICES ASSUME ParserTyped, SelfNamed, ParserNext PROVE SelfNamed'
  OBVIOUS
<1> USE DEF SelfNamed
<1>1. \A c, n, t : /\ Declaration(c, n, t).decl = c /\ Declaration(c, n, t).name = n
                   /\ Declaration(c, n, t).type = t
  BY DEF Declaration
<1>2. NoDeclaration.decl = "none" BY FieldWordsFacts
<1>3. ASSUME NEW n, BeginEnum(n) PROVE SelfNamed'
  BY <1>1, <1>3 DEF BeginEnum, Open
<1>4. ASSUME NEW m, NEW value, EnumMember(m, value) PROVE SelfNamed'
  <2>1. current \in DeclarationsOf("enum") BY <1>4, StageFacts DEF EnumMember
  <2> QED BY <1>4, <2>1 DEF EnumMember, Add, DeclarationsOf
<1>5. ASSUME NEW n, BeginStruct(n) PROVE SelfNamed'
  BY <1>1, <1>5 DEF BeginStruct, Open
<1>6. ASSUME NEW w, StructField(w) PROVE SelfNamed'
  <2>1. current \in DeclarationsOf("struct") BY <1>6, StageFacts DEF StructField
  <2> QED BY <1>6, <2>1 DEF StructField, Add, DeclarationsOf
<1>7. ASSUME NEW w, NEW n, BeginFunction(w, n) PROVE SelfNamed'
  BY <1>1, <1>7 DEF BeginFunction, Open
<1>8. ASSUME NEW w, NEW n, FunctionParameter(w, n) PROVE SelfNamed'
  <2>1. current \in DeclarationsOf("function") BY <1>8, StageFacts DEF FunctionParameter
  <2> QED BY <1>8, <2>1 DEF FunctionParameter, Add, DeclarationsOf
<1>9. CASE BeginBody
  <2>1. current \in DeclarationsOf("function") BY <1>9, StageFacts DEF BeginBody
  <2> QED BY <1>9, <2>1 DEF BeginBody, DeclarationsOf
<1>10. ASSUME NEW s, Sentence(s) PROVE SelfNamed'
  <2>1. current \in DeclarationsOf("function") BY <1>10, StageFacts DEF Sentence
  <2> QED BY <1>10, <2>1 DEF Sentence, DeclarationsOf
<1>11. CASE EnumValueNoNumber \/ RunOffEnd \/ Refuse \/ EndOfFile
  BY <1>11 DEF EnumValueNoNumber, RunOffEnd, Refuse, EndOfFile, parser
<1>12. CASE EndEnum \/ EndStruct \/ EndFunction \/ Prototype
  BY <1>2, <1>12 DEF EndEnum, EndStruct, EndFunction, Prototype, Push
<1>13. ASSUME NEW w, NEW n, NEW body, Global(w, n, body) PROVE SelfNamed'
  BY <1>2, <1>13 DEF Global, Push
<1> QED BY <1>3, <1>4, <1>5, <1>6, <1>7, <1>8, <1>9, <1>10, <1>11, <1>12, <1>13 DEF ParserNext

LEMMA ParserKeepsClaims == ParserTyped /\ SelfNamed /\ TypesAsClaimed /\ ParserNext => TypesAsClaimed'
<1> SUFFICES ASSUME ParserTyped, SelfNamed, TypesAsClaimed, ParserNext PROVE TypesAsClaimed'
  OBVIOUS
<1>1. file \in Seq(Declared) /\ file' \in Seq(Declared)
  BY ParserKeepsTypes DEF ParserTyped
<1>2. stage \in ParserStages
  BY DEF ParserNext, ParserStages, BeginEnum, EnumMember, EnumValueNoNumber, EndEnum, BeginStruct,
         StructField, EndStruct, RunOffEnd, Global, BeginFunction, FunctionParameter, BeginBody,
         Sentence, EndFunction, Prototype, Refuse, EndOfFile, Open
<1>3. ClaimedIn(file, current, typeTable)
  BY <1>1, <1>2, ClaimedNow, StageFacts
<1>4. SUFFICES ASSUME verdict' # "undefined" PROVE ClaimedIn(file', current', typeTable')
  BY <1>1, ClaimedThen
<1>5. ASSUME UNCHANGED <<file, typeTable>>, FieldWords(current) = FieldWords(current')
      PROVE  ClaimedIn(file', current', typeTable')
  BY <1>1, <1>3, <1>5, ClaimedSame
<1>6. ASSUME NEW d \in Declared, file' = Append(file, d), current' = NoDeclaration,
             FieldWords(current) = FieldWords(d),
             typeTable' = IF d.decl \in {"enum", "struct"}
                          THEN emplace(typeTable, {d.name}, d.type) ELSE typeTable
      PROVE  ClaimedIn(file', current', typeTable')
  BY <1>1, <1>3, <1>6, ClaimedPush
<1>7. ASSUME NEW c, NEW n, NEW t, NEW at, Open(Declaration(c, n, t), at)
      PROVE  ClaimedIn(file', current', typeTable')
  <2>1. FieldWords(current) = {} /\ FieldWords(current') = {}
    BY <1>7, StageFacts, FieldWordsFacts DEF Open
  <2> QED BY <1>5, <1>7, <2>1 DEF Open
<1>8. ASSUME NEW n, BeginEnum(n) \/ BeginStruct(n) PROVE ClaimedIn(file', current', typeTable')
  BY <1>7, <1>8 DEF BeginEnum, BeginStruct
<1>9. ASSUME NEW w, NEW n, BeginFunction(w, n) PROVE ClaimedIn(file', current', typeTable')
  BY <1>7, <1>9 DEF BeginFunction
<1>10. ASSUME current.decl \in {"enum", "function"}, current'.decl = current.decl,
              UNCHANGED <<file, typeTable>>
       PROVE  ClaimedIn(file', current', typeTable')
  <2>1. FieldWords(current) = {} /\ FieldWords(current') = {}
    BY <1>10, FieldWordsFacts
  <2> QED BY <1>5, <1>10, <2>1
<1>11. ASSUME NEW m, NEW value, EnumMember(m, value) PROVE ClaimedIn(file', current', typeTable')
  <2>1. current \in DeclarationsOf("enum") BY <1>11, StageFacts DEF EnumMember
  <2>2. current.decl = "enum" /\ current'.decl = "enum"
    BY <1>11, <2>1 DEF EnumMember, Add, DeclarationsOf
  <2> QED BY <1>10, <1>11, <2>2 DEF EnumMember
<1>12. ASSUME NEW w, NEW n, NEW s, FunctionParameter(w, n) \/ BeginBody \/ Sentence(s)
       PROVE  ClaimedIn(file', current', typeTable')
  <2>1. current \in DeclarationsOf("function")
    BY <1>12, StageFacts DEF FunctionParameter, BeginBody, Sentence
  <2>2. current.decl = "function" /\ current'.decl = "function"
    BY <1>12, <2>1 DEF FunctionParameter, BeginBody, Sentence, Add, DeclarationsOf
  <2> QED BY <1>10, <1>12, <2>2 DEF FunctionParameter, BeginBody, Sentence
<1>13. CASE EnumValueNoNumber \/ Refuse \/ EndOfFile
  BY <1>5, <1>13 DEF EnumValueNoNumber, Refuse, EndOfFile, parser
<1>14. CASE RunOffEnd
  BY <1>4, <1>14 DEF RunOffEnd
<1>15. ASSUME NEW w \in WordsFor["field"], StructField(w)
       PROVE  ClaimedIn(file', current', typeTable')
  <2>1. current \in DeclarationsOf("struct") /\ w \in AllWords
    BY <1>15, StageFacts, DeclarationsAssumption DEF StructField
  <2> DEFINE ps == current.parts  qs == Append(ps, Field(w, wordType(w)))
  <2>2. /\ Len(ps) \in Nat /\ DOMAIN ps = 1..Len(ps) /\ DOMAIN qs = 1..Len(ps)+1
        /\ \A p \in 1..Len(ps) : qs[p] = ps[p]
        /\ qs[Len(ps)+1].word = w
    BY <2>1 DEF DeclarationsOf, Field
  <2>3. current'.parts = qs /\ current'.decl = "struct" /\ current.decl = "struct"
    BY <1>15, <2>1 DEF StructField, Add, DeclarationsOf
  <2> HIDE DEF ps, qs
  <2>4. {qs[p].word : p \in 1..Len(ps)+1} = {ps[p].word : p \in 1..Len(ps)} \cup {w}
    <3>1. \A p \in 1..Len(ps)+1 : p \in 1..Len(ps) \/ p = Len(ps) + 1 BY <2>2
    <3>2. 1..Len(ps) \subseteq 1..Len(ps)+1 /\ Len(ps) + 1 \in 1..Len(ps)+1 BY <2>2
    <3> QED BY <2>2, <3>1, <3>2
  <2>5. FieldWords(current') = FieldWords(current) \cup {w}
    BY <2>2, <2>3, <2>4 DEF FieldWords, ps
  <2>6. file' = file /\ typeTable' = emplace(typeTable, {w}, Untyped)
    BY <1>15 DEF StructField
  <2> QED BY <1>1, <1>3, <2>1, <2>5, <2>6, ClaimedField
<1>16. CASE EndEnum \/ EndStruct
  <2>1. current \in Declared /\ current.decl \in {"enum", "struct"}
    <3>1. current \in DeclarationsOf("enum") \/ current \in DeclarationsOf("struct")
      BY <1>16, StageFacts DEF EndEnum, EndStruct
    <3> QED BY <3>1, KindsDeclared DEF DeclarationKinds, DeclarationsOf
  <2>2. typeTable' = emplace(typeTable, {current.name}, current.type)
    BY <1>16, StageFacts DEF EndEnum, EndStruct, SelfNamed
  <2> QED BY <1>6, <1>16, <2>1, <2>2 DEF EndEnum, EndStruct, Push
<1>17. CASE EndFunction \/ Prototype
  <2>1. current \in Declared /\ current.decl = "function"
    <3>1. current \in DeclarationsOf("function") BY <1>17, StageFacts DEF EndFunction, Prototype
    <3> QED BY <3>1, KindsDeclared DEF DeclarationKinds, DeclarationsOf
  <2> QED BY <1>6, <1>17, <2>1 DEF EndFunction, Prototype, Push
<1>18. ASSUME NEW w \in WordsFor["variable"], NEW n \in NamesFor["variable"], NEW body,
              Global(w, n, body)
       PROVE  ClaimedIn(file', current', typeTable')
  <2> DEFINE d == [Declaration("variable", n, typeTable[w]) EXCEPT !.body = body]
  <2>1. d.decl = "variable" /\ current = NoDeclaration
    BY <1>18, StageFacts DEF Declaration, Global
  <2>2. FieldWords(d) = {} /\ FieldWords(current) = {} BY <2>1, FieldWordsFacts
  <2>3. file' = Append(file, d) /\ current' = NoDeclaration /\ typeTable' = typeTable
    BY <1>18 DEF Global, Push
  <2>4. d \in Declared
    <3>1. file'[Len(file)+1] = d /\ Len(file) + 1 \in DOMAIN file'
      BY <1>1, <2>3
    <3> QED BY <1>1, <3>1
  <2> HIDE DEF d
  <2> QED BY <1>6, <2>1, <2>2, <2>3, <2>4
<1> QED BY <1>8, <1>9, <1>11, <1>12, <1>13, <1>14, <1>15, <1>16, <1>17, <1>18 DEF ParserNext

-----------------------------------------------------------------------------
(***************************************************************************)
(* A struct is declared in front of whatever has it for a type.            *)
(***************************************************************************)
StructBefore(f, i, t) ==
  t.kind = "STRUCT" =>
    \E j \in DOMAIN f : j < i /\ f[j].decl = "struct" /\ f[j].name = t.name

StructsOrdered ==
  /\ \A w \in DOMAIN typeTable : StructBefore(file, Len(file) + 1, typeTable[w])
  /\ current.decl \in {"struct", "function"} =>
       \A p \in DOMAIN current.parts : StructBefore(file, Len(file) + 1, current.parts[p].type)
  /\ \A k \in DOMAIN file : file[k].decl \in {"struct", "function"} =>
       \A p \in DOMAIN file[k].parts : StructBefore(file, k, file[k].parts[p].type)

(* The file grows at its end.                                              *)
LEMMA ExtendedFile ==
  ASSUME file \in Seq(Declared), NEW d, file' = Append(file, d)
  PROVE  /\ Len(file') = Len(file) + 1 /\ DOMAIN file' = 1..Len(file)+1
         /\ Len(file) \in Nat /\ DOMAIN file = 1..Len(file)
         /\ \A k \in DOMAIN file : k \in DOMAIN file' /\ file'[k] = file[k]
         /\ file'[Len(file)+1] = d
         /\ \A t : \A i \in Int : StructBefore(file, i, t) => StructBefore(file', i, t)
<1>1. /\ Len(file') = Len(file) + 1 /\ DOMAIN file' = 1..Len(file)+1
      /\ Len(file) \in Nat /\ DOMAIN file = 1..Len(file)
      /\ \A k \in DOMAIN file : k \in DOMAIN file' /\ file'[k] = file[k]
      /\ file'[Len(file)+1] = d
  OBVIOUS
<1> QED BY <1>1 DEF StructBefore

LEMMA ParserKeepsOrder == ParserTyped /\ StructsOrdered /\ ParserNext => StructsOrdered'
<1> SUFFICES ASSUME ParserTyped, StructsOrdered, ParserNext PROVE StructsOrdered'
  OBVIOUS
<1>1. file \in Seq(Declared) /\ Len(file) \in Nat /\ DOMAIN file = 1..Len(file)
  BY DEF ParserTyped
<1>2. \A i, t : t.kind # "STRUCT" => StructBefore(file, i, t) /\ StructBefore(file', i, t)
  BY DEF StructBefore
<1>3. Untyped.kind # "STRUCT" BY DEF Untyped, Builtin
(* The file and the table stay, but for words that become no structs.      *)
<1>4. ASSUME file' = file,
             \A w \in DOMAIN typeTable' : \/ w \in DOMAIN typeTable /\ typeTable'[w] = typeTable[w]
                                          \/ typeTable'[w] = Untyped,
             current'.decl \in {"struct", "function"} =>
               \A p \in DOMAIN current'.parts : StructBefore(file, Len(file) + 1, current'.parts[p].type)
      PROVE  StructsOrdered'
  <2>1. \A i, t : StructBefore(file, i, t) => StructBefore(file', i, t)
    BY <1>4 DEF StructBefore
  <2>2. \A w \in DOMAIN typeTable' : StructBefore(file', Len(file) + 1, typeTable'[w])
    BY <1>2, <1>3, <1>4, <2>1 DEF StructsOrdered
  <2>3. current'.decl \in {"struct", "function"} =>
          \A p \in DOMAIN current'.parts : StructBefore(file', Len(file) + 1, current'.parts[p].type)
    BY <1>4, <2>1
  <2>4. \A k \in DOMAIN file' : file'[k].decl \in {"struct", "function"} =>
          \A p \in DOMAIN file'[k].parts : StructBefore(file', k, file'[k].parts[p].type)
    BY <1>4, <2>1 DEF StructsOrdered
  <2> QED BY <1>4, <2>2, <2>3, <2>4 DEF StructsOrdered
(* A declaration is finished.                                              *)
<1>5. ASSUME NEW d, file' = Append(file, d), current' = NoDeclaration,
             d.decl \in {"struct", "function"} =>
               \A p \in DOMAIN d.parts : StructBefore(file, Len(file) + 1, d.parts[p].type),
             \A w \in DOMAIN typeTable' :
                \/ w \in DOMAIN typeTable /\ typeTable'[w] = typeTable[w]
                \/ typeTable'[w].kind # "STRUCT"
                \/ d.decl = "struct" /\ typeTable'[w] = StructType(d.name)
      PROVE  StructsOrdered'
  <2>1. /\ Len(file') = Len(file) + 1 /\ DOMAIN file' = 1..Len(file)+1
        /\ \A k \in DOMAIN file : k \in DOMAIN file' /\ file'[k] = file[k]
        /\ file'[Len(file)+1] = d
        /\ \A t : \A i \in Int : StructBefore(file, i, t) => StructBefore(file', i, t)
    BY <1>1, <1>5, ExtendedFile
  <2>2. \A t : \A i, j \in Int : i <= j /\ StructBefore(file, i, t) => StructBefore(file, j, t)
    BY <1>1 DEF StructBefore
  <2>3. ASSUME NEW w \in DOMAIN typeTable'
        PROVE  StructBefore(file', Len(file) + 2, typeTable'[w])
    <3>1. CASE w \in DOMAIN typeTable /\ typeTable'[w] = typeTable[w]
      <4>1. StructBefore(file, Len(file) + 1, typeTable[w])
        BY <3>1 DEF StructsOrdered
      <4>2. StructBefore(file, Len(file) + 2, typeTable[w])
        BY <1>1, <2>2, <4>1
      <4> QED BY <1>1, <2>1, <3>1, <4>2
    <3>2. CASE typeTable'[w].kind # "STRUCT"
      BY <3>2 DEF StructBefore
    <3>3. CASE d.decl = "struct" /\ typeTable'[w] = StructType(d.name)
      <4>1. StructType(d.name).name = d.name BY DEF StructType
      <4>2. Len(file) + 1 \in DOMAIN file' /\ Len(file) + 1 < Len(file) + 2 BY <1>1, <2>1
      <4> QED BY <2>1, <3>3, <4>1, <4>2 DEF StructBefore
    <3> QED BY <1>5, <3>1, <3>2, <3>3
  <2>4. current'.decl \notin {"struct", "function"} BY <1>5, FieldWordsFacts
  <2>5. ASSUME NEW k \in DOMAIN file', file'[k].decl \in {"struct", "function"},
               NEW p \in DOMAIN file'[k].parts
        PROVE  StructBefore(file', k, file'[k].parts[p].type)
    <3>1. k \in Int BY <1>1, <2>1
    <3>2. CASE k \in DOMAIN file
      <4>1. StructBefore(file, k, file[k].parts[p].type)
        BY <2>1, <2>5, <3>2 DEF StructsOrdered
      <4> QED BY <2>1, <3>1, <3>2, <4>1
    <3>3. CASE k \notin DOMAIN file
      <4>1. k = Len(file) + 1 /\ file'[k] = d BY <1>1, <2>1, <3>3
      <4>2. StructBefore(file, k, d.parts[p].type) BY <1>5, <2>5, <4>1
      <4> QED BY <2>1, <3>1, <4>1, <4>2
    <3> QED BY <3>2, <3>3
  <2>6. Len(file') + 1 = Len(file) + 2 BY <1>1, <2>1
  <2> QED BY <2>3, <2>4, <2>5, <2>6 DEF StructsOrdered
<1>6. ASSUME NEW c, NEW n, NEW t, NEW at, Open(Declaration(c, n, t), at) PROVE StructsOrdered'
  <2>1. DOMAIN current'.parts = {} /\ file' = file /\ typeTable' = typeTable
    BY <1>6 DEF Open, Declaration
  <2> QED BY <1>4, <2>1
<1>7. ASSUME NEW n, BeginEnum(n) \/ BeginStruct(n) PROVE StructsOrdered'
  BY <1>6, <1>7 DEF BeginEnum, BeginStruct
<1>8. ASSUME NEW w, NEW n, BeginFunction(w, n) PROVE StructsOrdered'
  BY <1>6, <1>8 DEF BeginFunction
<1>9. ASSUME NEW m, NEW value, EnumMember(m, value) PROVE StructsOrdered'
  <2>1. current \in DeclarationsOf("enum") BY <1>9, StageFacts DEF EnumMember
  <2>2. current'.decl = "enum" BY <1>9, <2>1 DEF EnumMember, Add, DeclarationsOf
  <2> QED BY <1>4, <1>9, <2>2 DEF EnumMember
(* A part more, of a type from the table.                                  *)
<1>10. ASSUME NEW c \in {"struct", "function"}, current \in DeclarationsOf(c),
              NEW part, Add(part), StructBefore(file, Len(file) + 1, part.type)
       PROVE  \A p \in DOMAIN current'.parts : StructBefore(file, Len(file) + 1, current'.parts[p].type)
  <2> DEFINE ps == current.parts  qs == Append(ps, part)
  <2>1. /\ Len(ps) \in Nat /\ DOMAIN ps = 1..Len(ps) /\ DOMAIN qs = 1..Len(ps)+1
        /\ \A p \in 1..Len(ps) : qs[p] = ps[p]
        /\ qs[Len(ps)+1] = part
    BY <1>10 DEF DeclarationsOf
  <2>2. current'.parts = qs /\ current.decl \in {"struct", "function"}
    BY <1>10 DEF Add, DeclarationsOf
  <2>3. \A p \in DOMAIN ps : StructBefore(file, Len(file) + 1, ps[p].type)
    BY <2>2 DEF StructsOrdered
  <2> HIDE DEF ps, qs
  <2>4. ASSUME NEW p \in DOMAIN qs PROVE StructBefore(file, Len(file) + 1, qs[p].type)
    <3>1. (p \in DOMAIN ps /\ qs[p] = ps[p]) \/ p = Len(ps) + 1
      BY <2>1
    <3> QED BY <1>10, <2>1, <2>3, <3>1
  <2> QED BY <2>2, <2>4
<1>11. ASSUME NEW w, StructField(w) PROVE StructsOrdered'
  <2>1. current \in DeclarationsOf("struct") BY <1>11, StageFacts DEF StructField
  <2>2. StructBefore(file, Len(file) + 1, Field(w, wordType(w)).type)
    BY <1>2, <1>3 DEF Field, wordType, StructsOrdered
  <2>3. \A p \in DOMAIN current'.parts : StructBefore(file, Len(file) + 1, current'.parts[p].type)
    BY <1>10, <1>11, <2>1, <2>2 DEF StructField
  <2>4. \A v \in DOMAIN typeTable' : \/ v \in DOMAIN typeTable /\ typeTable'[v] = typeTable[v]
                                     \/ typeTable'[v] = Untyped
    BY <1>11 DEF StructField, emplace
  <2> QED BY <1>4, <1>11, <2>3, <2>4 DEF StructField
<1>12. ASSUME NEW w, NEW n, FunctionParameter(w, n) PROVE StructsOrdered'
  <2>1. current \in DeclarationsOf("function") BY <1>12, StageFacts DEF FunctionParameter
  <2>2. StructBefore(file, Len(file) + 1, Parameter(n, typeTable[w]).type)
    BY <1>12 DEF Parameter, FunctionParameter, StructsOrdered
  <2>3. \A p \in DOMAIN current'.parts : StructBefore(file, Len(file) + 1, current'.parts[p].type)
    BY <1>10, <1>12, <2>1, <2>2 DEF FunctionParameter
  <2> QED BY <1>4, <1>12, <2>3 DEF FunctionParameter
<1>13. ASSUME NEW s, BeginBody \/ Sentence(s) PROVE StructsOrdered'
  <2>1. current \in DeclarationsOf("function") BY <1>13, StageFacts DEF BeginBody, Sentence
  <2>2. current'.parts = current.parts /\ current.decl = "function"
    BY <1>13, <2>1 DEF BeginBody, Sentence, DeclarationsOf
  <2>3. \A p \in DOMAIN current'.parts : StructBefore(file, Len(file) + 1, current'.parts[p].type)
    BY <2>2 DEF StructsOrdered
  <2> QED BY <1>4, <1>13, <2>3 DEF BeginBody, Sentence
<1>14. CASE EnumValueNoNumber \/ Refuse \/ EndOfFile
  BY <1>4, <1>14 DEF EnumValueNoNumber, Refuse, EndOfFile, parser, StructsOrdered
<1>15. CASE RunOffEnd
  <2>1. \A v \in DOMAIN typeTable' : \/ v \in DOMAIN typeTable /\ typeTable'[v] = typeTable[v]
                                     \/ typeTable'[v] = Untyped
    BY <1>15 DEF RunOffEnd, emplace
  <2> QED BY <1>4, <1>15, <2>1 DEF RunOffEnd, StructsOrdered
<1>16. CASE EndEnum
  <2>1. \A w \in DOMAIN typeTable' : \/ w \in DOMAIN typeTable /\ typeTable'[w] = typeTable[w]
                                     \/ typeTable'[w].kind # "STRUCT"
    BY <1>16 DEF EndEnum, emplace, EnumType
  <2>2. current.decl = "enum" BY <1>16, StageFacts DEF EndEnum
  <2> QED BY <1>5, <1>16, <2>1, <2>2 DEF EndEnum, Push
<1>17. CASE EndStruct
  <2>1. \A w \in DOMAIN typeTable' : \/ w \in DOMAIN typeTable /\ typeTable'[w] = typeTable[w]
                                     \/ typeTable'[w] = StructType(current.name)
    BY <1>17 DEF EndStruct, emplace
  <2>2. current.decl = "struct" BY <1>17, StageFacts DEF EndStruct
  <2> QED BY <1>5, <1>17, <2>1, <2>2 DEF EndStruct, Push, StructsOrdered
<1>18. CASE EndFunction \/ Prototype
  BY <1>5, <1>18 DEF EndFunction, Prototype, Push, StructsOrdered
<1>19. ASSUME NEW w, NEW n, NEW body, Global(w, n, body) PROVE StructsOrdered'
  <2>1. [Declaration("variable", n, typeTable[w]) EXCEPT !.body = body].decl = "variable"
    BY DEF Declaration
  <2> QED BY <1>5, <1>19, <2>1 DEF Global, Push
<1> QED BY <1>7, <1>8, <1>9, <1>11, <1>12, <1>13, <1>14, <1>15, <1>16, <1>17, <1>18, <1>19
        DEF ParserNext

-----------------------------------------------------------------------------
(***************************************************************************)
(* The passes after the parser.                                            *)
(***************************************************************************)
TablesTyped ==
  /\ IsTable(functions, Names, ProperFunctions) /\ IsTable(globals, Names, Proper)
  /\ IsTable(enums, Names, BackingKinds) /\ IsTable(members, EnumKeys, ProperInfos)
  /\ IsTable(structs, Names, BOOLEAN)

(* Where the passes are in the file.                                       *)
PlaceTyped ==
  /\ next \in 1..Len(file)+1 /\ statement \in Nat
  /\ stage \in ParserStages => next = 1
  /\ stage \notin {"analyse", "ended"} => statement = 0
  /\ statement # 0 => /\ next \in DOMAIN file /\ file[next].decl = "function"
                      /\ statement <= Len(file[next].body) + 1

(* What the first pass and the second leave for later ones.                *)
FunctionsKnown ==
  /\ stage = "register" => \A k \in 1..next-1 : file[k].decl = "function" =>
                             file[k].name \in DOMAIN functions
  /\ stage = "analyse"  => \A k \in DOMAIN file : file[k].decl = "function" =>
                             file[k].name \in DOMAIN functions
  /\ stage \in {"analyse", "globals", "translate"} => Len(ids) = Len(file)
  /\ stage = "register" => Len(ids) = next - 1
  /\ stage \in ParserStages => ids = <<>>

NotesWritten ==
  /\ stage = "analyse" =>
       /\ \A k \in 1..next-1 : file[k].decl = "function" =>
            \A j \in DOMAIN file[k].body : <<k, j>> \in DOMAIN notes
       /\ \A j \in 1..statement-1 : <<next, j>> \in DOMAIN notes
  /\ stage \in {"globals", "translate"} =>
       \A k \in DOMAIN file : file[k].decl = "function" =>
         \A j \in DOMAIN file[k].body : <<k, j>> \in DOMAIN notes

ProperNotes     == [id : Nat, types : SUBSET Proper]
ProperEmissions == [id : Nat, retType : Proper, code : Seq(ProperCode)]

OutputTyped ==
  /\ functionCounter \in Nat /\ currentFunc \in Proper /\ errorNumber \in Nat
  /\ ids \in Seq(Nat)
  /\ IsTable(notes, Nat \X Nat, ProperNotes)
  /\ prog = [globals |-> prog.globals, functions |-> prog.functions]
  /\ prog.globals \in Seq(Names \X Proper)
  /\ prog.functions \in Seq(ProperEmissions)

(* The structs laid out, and the values of enum members.                   *)
StructsLaidOut ==
  /\ \A n \in DOMAIN structs : structs[n]
  /\ stage = "analyse" => \A k \in 1..next-1 : file[k].decl = "struct" =>
                            file[k].name \in DOMAIN structs

Typed == ParserTyped /\ TablesTyped /\ PlaceTyped /\ FunctionsKnown /\ NotesWritten /\ OutputTyped

IInv ==
  /\ Typed
  /\ SelfNamed /\ StructsOrdered /\ TypesAsClaimed
  /\ StructsLaidOut /\ EnumValuesFit

-----------------------------------------------------------------------------
LEMMA InitInv == Init => IInv
<1> SUFFICES ASSUME Init PROVE IInv
  OBVIOUS
<1> USE DEF Init, ParserInit
<1>1. builtinTypes = typeTable /\ IsTable(typeTable, AllWords, Proper)
  BY BuiltinsProper DEF IsTable
<1>2. CurrentTyped BY DEF CurrentTyped
<1>3. ParserTyped
  <2>1. "root" \in Stages /\ "none" \in Verdicts BY DEF Stages, Verdicts, ParserStages
  <2>2. 0 \in 0..MaxParts BY DeclarationsAssumption
  <2>3. file \in Seq(Declared) OBVIOUS
  <2> QED BY <1>1, <1>2, <2>1, <2>2, <2>3 DEF ParserTyped
<1>4. TablesTyped BY DEF TablesTyped, IsTable
<1>5. PlaceTyped /\ FunctionsKnown /\ NotesWritten
  BY DEF PlaceTyped, FunctionsKnown, NotesWritten, ParserStages
<1>6. OutputTyped BY KindsFacts DEF OutputTyped, NoOutput, IsTable
<1>7. SelfNamed BY FieldWordsFacts DEF SelfNamed
<1>8. StructsOrdered
  <2>1. \A w \in DOMAIN builtinTypes : builtinTypes[w].kind # "STRUCT" BY BuiltinsProper
  <2> QED BY <2>1, FieldWordsFacts DEF StructsOrdered, StructBefore
<1>9. TypesAsClaimed
  <2>1. \A w : ClaimsIn(<<>>, NoDeclaration, w) = {}
    BY FieldWordsFacts DEF ClaimsIn, FieldIn, NameIn
  <2>2. ClaimedIn(file, current, typeTable)
    BY <1>1, <2>1 DEF ClaimedIn
  <2>3. file \in Seq(Declared) OBVIOUS
  <2> QED BY <2>2, <2>3, ClaimedNow
<1>10. StructsLaidOut /\ EnumValuesFit BY DEF StructsLaidOut, EnumValuesFit
<1> QED BY <1>3, <1>4, <1>5, <1>6, <1>7, <1>8, <1>9, <1>10 DEF IInv, Typed

LEMMA ParserShape ==
  ParserNext => stage \in ParserStages /\ stage' \in ParserStages \cup {"register", "ended"}
BY DEF ParserNext, ParserStages, BeginEnum, EnumMember, EnumValueNoNumber, EndEnum, BeginStruct,
       StructField, EndStruct, RunOffEnd, Global, BeginFunction, FunctionParameter, BeginBody,
       Sentence, EndFunction, Prototype, Refuse, EndOfFile, Open, Push

LEMMA ParseInv == IInv /\ Parse => IInv'
<1> SUFFICES ASSUME IInv, Parse PROVE IInv'
  OBVIOUS
<1>1. ParserTyped' /\ SelfNamed' /\ StructsOrdered' /\ TypesAsClaimed'
  BY ParserKeepsTypes, ParserKeepsNames, ParserKeepsOrder, ParserKeepsClaims DEF IInv, Typed, Parse
<1>2. stage \in ParserStages /\ stage' \in ParserStages \cup {"register", "ended"}
  BY ParserShape DEF Parse
<1>3. UNCHANGED <<functions, globals, enums, members, structs, functionCounter, currentFunc,
                  errorNumber, ids, notes, next, statement, prog>>
  BY DEF Parse, analyser, tables
<1>4. next = 1 /\ statement = 0 /\ ids = <<>>
  BY <1>2 DEF IInv, Typed, PlaceTyped, FunctionsKnown, ParserStages
<1>5. TablesTyped' BY <1>3 DEF TablesTyped, IInv, Typed, IsTable
<1>6. PlaceTyped'
  <2>1. 1 \in 1..Len(file')+1 BY <1>1 DEF ParserTyped
  <2> QED BY <1>3, <1>4, <2>1 DEF PlaceTyped
<1>7. FunctionsKnown' BY <1>2, <1>3, <1>4 DEF FunctionsKnown, ParserStages
<1>8. NotesWritten' BY <1>2 DEF NotesWritten, ParserStages
<1>9. OutputTyped' BY <1>3 DEF OutputTyped, IInv, Typed, IsTable
<1>10. StructsLaidOut' BY <1>2, <1>3 DEF StructsLaidOut, IInv, ParserStages
<1>11. EnumValuesFit' BY <1>3 DEF EnumValuesFit, IInv
<1> QED BY <1>1, <1>5, <1>6, <1>7, <1>8, <1>9, <1>10, <1>11 DEF IInv, Typed

(* No later step touches what the parser has left.                         *)
Later == {"register", "analyse", "globals", "translate"}

LEMMA LaterStep ==
  ASSUME IInv, stage \in Later, UNCHANGED parser,
         \/ stage' \in Later /\ verdict' = verdict
         \/ stage' = "ended" /\ verdict' \in {"rejected", "null code", "unsupported", "compiled"}
  PROVE  /\ ParserTyped' /\ SelfNamed' /\ StructsOrdered' /\ TypesAsClaimed'
         /\ file' = file
<1> USE DEF Later
<1>1. UNCHANGED <<typeTable, file, current, counter, ahead, parts>> BY DEF parser
<1>2. ParserTyped /\ verdict = "none" /\ stage \notin ParserStages /\ stage # "ended"
  BY DEF IInv, Typed, ParserTyped, ParserStages
<1>3. CurrentTyped' BY <1>1, <1>2 DEF ParserTyped, CurrentTyped
<1>4. ParserTyped'
  BY <1>1, <1>2, <1>3 DEF ParserTyped, Stages, Verdicts, IsTable
<1>5. SelfNamed' BY <1>1 DEF SelfNamed, IInv
<1>6. StructsOrdered' BY <1>1 DEF StructsOrdered, IInv
<1>7. TypesAsClaimed'
  <2>1. file \in Seq(Declared) BY <1>2 DEF ParserTyped
  <2>2. ClaimedIn(file, current, typeTable) BY <1>2, <2>1, ClaimedNow DEF IInv
  <2> QED BY <1>1, <2>1, <2>2, ClaimedThen
<1> QED BY <1>1, <1>4, <1>5, <1>6, <1>7

(* The declaration that is visited.                                        *)
LEMMA NodeFacts ==
  ASSUME Typed, next <= Len(file)
  PROVE  /\ next \in DOMAIN file /\ next \in 1..Len(file) /\ node \in Declared
         /\ Len(file) \in Nat /\ DOMAIN file = 1..Len(file)
         /\ node.decl \in DeclarationKinds /\ node.name \in Names /\ node.type \in Proper
         /\ node \in DeclarationsOf(node.decl) /\ node.defined \in BOOLEAN
         /\ node.parts \in Seq(ProperParts(node.decl)) /\ node.body \in Seq(Statements)
<1>1. file \in Seq(Declared) /\ next \in 1..Len(file)+1
  BY DEF Typed, ParserTyped, PlaceTyped
<1>2. next \in 1..Len(file) /\ Len(file) \in Nat /\ DOMAIN file = 1..Len(file) BY <1>1
<1>3. node \in Declared BY <1>1, <1>2 DEF node
<1> QED BY <1>2, <1>3, DeclaredFacts

LEMMA FunctionInfoProper ==
  ASSUME NEW d \in DeclarationsOf("function"), NEW id \in Nat
  PROVE  FunctionInfo(d, id) \in ProperFunctions
<1>1. d.type \in Proper /\ d.parts \in Seq([name : Names, type : Proper])
  BY DEF DeclarationsOf, ProperParts
<1>2. [p \in DOMAIN d.parts |-> d.parts[p].type] \in Seq(Proper)
  <2>1. \A p \in DOMAIN d.parts : d.parts[p].type \in Proper
    <3>1. ASSUME NEW p \in DOMAIN d.parts PROVE d.parts[p] \in [name : Names, type : Proper]
      BY <1>1, ElementOf
    <3> QED BY <3>1
  <2>2. DOMAIN d.parts = 1..Len(d.parts) /\ Len(d.parts) \in Nat BY <1>1
  <2> QED BY <2>1, <2>2
<1> QED BY <1>1, <1>2 DEF FunctionInfo, ProperFunctions

LEMMA RegisterInv == IInv /\ Register => IInv'
<1> SUFFICES ASSUME IInv, Register PROVE IInv'
  OBVIOUS
<1>1. /\ ParserTyped' /\ SelfNamed' /\ StructsOrdered' /\ TypesAsClaimed'
      /\ file' = file
  BY LaterStep DEF Register, Later
<1>2. Typed /\ next <= Len(file) /\ stage = "register" /\ stage' = stage /\ next' = next + 1
  BY DEF IInv, Register
<1>3. next \in 1..Len(file) /\ node.decl \in DeclarationKinds /\ node.name \in Names
      /\ node.type \in Proper /\ node \in DeclarationsOf(node.decl) /\ Len(file) \in Nat
  BY <1>2, NodeFacts
<1>4. functionCounter \in Nat /\ ids \in Seq(Nat) BY <1>2 DEF Typed, OutputTyped
<1>5. IsTable(functions', Names, ProperFunctions)
  <2>1. IsTable(functions, Names, ProperFunctions) BY <1>2 DEF Typed, TablesTyped
  <2>2. CASE node.decl = "function"
    <3>1. FunctionInfo(node, functionCounter) \in ProperFunctions
      BY <1>3, <1>4, <2>2, FunctionInfoProper
    <3>2. {node.name} \in SUBSET Names BY <1>3
    <3>3. functions' = emplace(functions, {node.name}, FunctionInfo(node, functionCounter))
      BY <2>2 DEF Register
    <3> QED BY <2>1, <3>1, <3>2, <3>3, EmplaceTyped
  <2>3. CASE node.decl # "function"
    BY <2>1, <2>3 DEF Register
  <2> QED BY <2>2, <2>3
<1>6. TablesTyped' BY <1>2, <1>5 DEF Register, Typed, TablesTyped
<1>7. PlaceTyped'
  <2>1. statement = 0 BY <1>2 DEF Typed, PlaceTyped
  <2>2. statement' = statement BY DEF Register
  <2> QED BY <1>1, <1>2, <1>3, <2>1, <2>2 DEF PlaceTyped, ParserStages
<1>8. ids' \in Seq(Nat) /\ Len(ids') = Len(ids) + 1 /\ functionCounter' \in Nat
      /\ currentFunc' \in Proper
  <2>1. ids' = Append(ids, functionCounter) \/ ids' = Append(ids, 0) BY DEF Register
  <2>2. functionCounter' \in {functionCounter, functionCounter + 1} BY DEF Register
  <2>3. currentFunc' \in {currentFunc, node.type} BY DEF Register
  <2>4. currentFunc \in Proper BY <1>2 DEF Typed, OutputTyped
  <2>5. ids' \in Seq(Nat) /\ Len(ids') = Len(ids) + 1 BY <1>4, <2>1
  <2>6. functionCounter' \in Nat BY <1>4, <2>2
  <2> QED BY <1>3, <2>3, <2>4, <2>5, <2>6
<1>9. FunctionsKnown'
  <2>1. Len(ids) = next - 1 BY <1>2 DEF Typed, FunctionsKnown
  <2>2. DOMAIN functions \subseteq DOMAIN functions'
        /\ (node.decl = "function" => node.name \in DOMAIN functions')
    BY DEF Register, emplace
  <2>3. ASSUME NEW k \in 1..next'-1, file'[k].decl = "function"
        PROVE  file'[k].name \in DOMAIN functions'
    <3>1. k \in 1..next-1 \/ k = next BY <1>2, <1>3
    <3>2. CASE k \in 1..next-1 BY <1>1, <1>2, <2>2, <2>3, <3>2 DEF Typed, FunctionsKnown
    <3>3. CASE k = next BY <1>1, <2>2, <2>3, <3>3 DEF node
    <3> QED BY <3>1, <3>2, <3>3
  <2>4. Len(ids') = next' - 1 BY <1>2, <1>3, <1>8, <2>1
  <2> QED BY <1>2, <2>3, <2>4 DEF FunctionsKnown, ParserStages
<1>10. NotesWritten' BY <1>2 DEF NotesWritten
<1>11. OutputTyped' BY <1>2, <1>8 DEF Register, Typed, OutputTyped
<1>12. StructsLaidOut' BY <1>2 DEF Register, IInv, StructsLaidOut
<1>13. EnumValuesFit' BY DEF Register, IInv, EnumValuesFit
<1> QED BY <1>1, <1>6, <1>7, <1>9, <1>10, <1>11, <1>12, <1>13 DEF IInv, Typed

LEMMA NextPassInv ==
  ASSUME IInv, NEW from, NEW to, NextPass(from, to),
         <<from, to>> \in {<<"register", "analyse">>, <<"analyse", "globals">>}
  PROVE  IInv'
<1>1. /\ ParserTyped' /\ SelfNamed' /\ StructsOrdered' /\ TypesAsClaimed'
      /\ file' = file
  BY LaterStep DEF NextPass, Later
<1>2. /\ stage = from /\ stage' = to /\ next' = 1 /\ next > Len(file)
      /\ UNCHANGED <<functions, globals, enums, members, structs, functionCounter, currentFunc,
                     errorNumber, ids, notes, statement, prog>>
      /\ Typed /\ next \in 1..Len(file)+1 /\ Len(file) \in Nat /\ DOMAIN file = 1..Len(file)
  BY DEF NextPass, analyser, tables, IInv, Typed, PlaceTyped, ParserTyped
<1>3. next = Len(file) + 1 BY <1>2
<1>4. statement = 0
  BY <1>2, <1>3 DEF Typed, PlaceTyped
<1>5. TablesTyped' BY <1>2 DEF Typed, TablesTyped
<1>6. PlaceTyped' BY <1>1, <1>2, <1>4 DEF PlaceTyped, ParserStages
<1>7. FunctionsKnown' BY <1>1, <1>2, <1>3 DEF Typed, FunctionsKnown, ParserStages
<1>8. NotesWritten'
  <2>1. CASE to = "analyse" BY <1>2, <1>4, <2>1 DEF NotesWritten
  <2>2. CASE from = "analyse" /\ to = "globals"
    BY <1>1, <1>2, <1>3, <2>2 DEF Typed, NotesWritten
  <2> QED BY <2>1, <2>2
<1>9. OutputTyped' BY <1>2 DEF Typed, OutputTyped
<1>10. StructsLaidOut' BY <1>2 DEF IInv, StructsLaidOut
<1>11. EnumValuesFit' BY <1>2 DEF IInv, EnumValuesFit
<1> QED BY <1>1, <1>5, <1>6, <1>7, <1>8, <1>9, <1>10, <1>11 DEF IInv, Typed

(* The tables a statement is checked against.                              *)
LEMMA TablesProper ==
  ASSUME TablesTyped, NEW gl, IsTable(gl, Names, Proper),
         NEW ps, IsTable(ps, Names, Proper), NEW scoped
  PROVE  ProperTables(Tables(gl, ps, scoped))
BY DEF TablesTyped, Tables, ProperTables

LEMMA BoundProper ==
  ASSUME NEW d \in DeclarationsOf("function")
  PROVE  IsTable(Bound(d), Names, Proper)
<1> DEFINE S == [name : Names, type : Proper]
<1>1. d.parts \in Seq(S) BY DEF DeclarationsOf, ProperParts
<1>2. ASSUME NEW n \in NamesIn(d.parts)
      PROVE  n \in Names /\ FirstNamed(d.parts, n).type \in Proper
  <2>1. FirstNamed(d.parts, n) \in S /\ FirstNamed(d.parts, n).name = n
    <3> HIDE DEF S
    <3> QED BY <1>1, FirstNamedFacts
  <2> QED BY <2>1
<1> QED BY <1>2 DEF Bound, IsTable

LEMMA AnalyseTyped ==
  ASSUME Typed, EnumValuesFit, NEW env, ProperTables(env), NEW s \in Statements, NEW to \in Proper,
         NEW place \in Nat \X Nat, Analyse(env, s, to, place)
  PROVE  /\ errorNumber' \in Nat
         /\ IsTable(functions', Names, ProperFunctions)
         /\ IsTable(enums', Names, BackingKinds)
         /\ IsTable(members', EnumKeys, ProperInfos)
         /\ IsTable(notes', Nat \X Nat, ProperNotes)
         /\ DOMAIN notes' = DOMAIN notes \cup {place}
         /\ DOMAIN functions \subseteq DOMAIN functions'
         /\ EnumValuesFit'
<1>1. errorNumber' \in Nat
  <2>1. IsFiniteSet(StatementErrors(env, s, to)) BY ErrorsFinite
  <2>2. Cardinality(StatementErrors(env, s, to)) \in Nat BY <2>1, FS_CardinalityType
  <2> QED BY <2>2 DEF Analyse, Errors, Typed, OutputTyped
<1>2. /\ IsTable(functions, Names, ProperFunctions) /\ IsTable(enums, Names, BackingKinds)
      /\ IsTable(members, EnumKeys, ProperInfos)
  BY DEF Typed, TablesTyped
<1>3. /\ FunctionsLookedUp(s) \subseteq Names /\ MembersLookedUp(env, s) \subseteq EnumKeys
      /\ EnumsLookedUp(env, s, to) \subseteq Names /\ TypesTranslated(env, s, to) \subseteq Proper
  BY LookedUpProper
<1>4. IsTable(functions', Names, ProperFunctions)
  BY <1>2, <1>3, DefaultsProper, EmplaceTyped DEF Analyse, LookUp
<1>5. IsTable(enums', Names, BackingKinds)
  BY <1>2, <1>3, EmplaceTyped DEF Analyse, LookUp, BackingKinds
<1>6. IsTable(members', EnumKeys, ProperInfos)
  BY <1>2, <1>3, DefaultsProper, EmplaceTyped DEF Analyse, LookUp
<1>7. DOMAIN functions \subseteq DOMAIN functions'
  BY DEF Analyse, LookUp, emplace
<1>8. IsTable(notes', Nat \X Nat, ProperNotes) /\ DOMAIN notes' = DOMAIN notes \cup {place}
  <2> DEFINE note == [id    |-> IF s.value.node = "call" THEN function(env, s.value.name).id ELSE 0,
                      types |-> TypesTranslated(env, s, to)]
  <2>1. note \in ProperNotes
    <3>1. (IF s.value.node = "call" THEN function(env, s.value.name).id ELSE 0) \in Nat
      BY FunctionProper
    <3> QED BY <1>3, <3>1 DEF ProperNotes
  <2>2. notes' = [p \in DOMAIN notes \cup {place} |-> IF p = place THEN note ELSE notes[p]]
    BY DEF Analyse
  <2> HIDE DEF note
  <2>3. IsTable(notes, Nat \X Nat, ProperNotes) BY DEF Typed, OutputTyped
  <2> QED BY <2>1, <2>2, <2>3 DEF IsTable
<1>9. EnumValuesFit'
  <2>1. NoMember.kind # "UINT8" BY KindsFacts DEF NoMember, MemberInfo
  <2>2. ASSUME NEW key \in DOMAIN members', members'[key].kind = "UINT8"
        PROVE  members'[key].value <= 255
    <3>1. members' = emplace(members, MembersLookedUp(env, s), NoMember)
      BY DEF Analyse, LookUp
    <3>2. key \in DOMAIN members /\ members'[key] = members[key]
      BY <2>1, <2>2, <3>1 DEF emplace
    <3> QED BY <2>2, <3>2 DEF EnumValuesFit
  <2> QED BY <2>2 DEF EnumValuesFit
<1> QED BY <1>1, <1>4, <1>5, <1>6, <1>7, <1>8, <1>9

(* A declaration has been visited: what is left to show.                   *)
LEMMA VisitedInv ==
  ASSUME IInv, stage = "analyse", next <= Len(file), statement' = 0,
         Visited, TablesTyped', errorNumber' \in Nat, currentFunc' \in Proper,
         DOMAIN functions \subseteq DOMAIN functions',
         IsTable(notes', Nat \X Nat, ProperNotes), DOMAIN notes \subseteq DOMAIN notes',
         node.decl = "function" => \A j \in DOMAIN node.body : <<next, j>> \in DOMAIN notes',
         \A n \in DOMAIN structs' : structs'[n], DOMAIN structs \subseteq DOMAIN structs',
         node.decl = "struct" => node.name \in DOMAIN structs',
         EnumValuesFit'
  PROVE  IInv'
<1>1. /\ ParserTyped' /\ SelfNamed' /\ StructsOrdered' /\ TypesAsClaimed'
      /\ file' = file
  BY LaterStep DEF Visited, Later
<1>2. Typed /\ stage' = "analyse" /\ next' = next + 1
      /\ UNCHANGED <<functionCounter, ids, prog>>
  BY DEF IInv, Visited
<1>3. next \in 1..Len(file) /\ Len(file) \in Nat /\ DOMAIN file = 1..Len(file)
  BY <1>2, NodeFacts
<1>4. \A k \in 1..next'-1 : k \in 1..next-1 \/ k = next BY <1>2, <1>3
<1>5. PlaceTyped' BY <1>1, <1>2, <1>3 DEF PlaceTyped, ParserStages
<1>6. FunctionsKnown' BY <1>1, <1>2 DEF Typed, FunctionsKnown, ParserStages
<1>7. NotesWritten'
  <2>1. ASSUME NEW k \in 1..next'-1, file[k].decl = "function", NEW j \in DOMAIN file[k].body
        PROVE  <<k, j>> \in DOMAIN notes'
    <3>1. CASE k \in 1..next-1
      <4>1. <<k, j>> \in DOMAIN notes
        BY <1>2, <2>1, <3>1 DEF Typed, NotesWritten
      <4> QED BY <4>1
    <3>2. CASE k = next BY <2>1, <3>2 DEF node
    <3> QED BY <1>4, <3>1, <3>2
  <2> QED BY <1>1, <1>2, <2>1 DEF NotesWritten
<1>8. OutputTyped' BY <1>2 DEF Typed, OutputTyped
<1>9. StructsLaidOut'
  <2>1. ASSUME NEW k \in 1..next'-1, file[k].decl = "struct" PROVE file[k].name \in DOMAIN structs'
    <3>1. CASE k \in 1..next-1 BY <2>1, <3>1 DEF IInv, StructsLaidOut
    <3>2. CASE k = next BY <2>1, <3>2 DEF node
    <3> QED BY <1>4, <3>1, <3>2
  <2> QED BY <1>1, <2>1 DEF StructsLaidOut
<1> QED BY <1>1, <1>5, <1>6, <1>7, <1>8, <1>9 DEF IInv, Typed

(* A visit that is not of a function starts and ends outside one.          *)
LEMMA OutsideFunction ==
  ASSUME Typed, stage = "analyse", next <= Len(file), node.decl # "function"
  PROVE  statement = 0
BY DEF Typed, PlaceTyped, node

LEMMA AnalyseGlobalInv == IInv /\ AnalyseGlobal => IInv'
<1> SUFFICES ASSUME IInv, AnalyseGlobal PROVE IInv'
  OBVIOUS
<1>1. /\ stage = "analyse" /\ next <= Len(file) /\ node.decl = "variable" /\ Visited
      /\ UNCHANGED <<structs, currentFunc, statement>> /\ Typed
  BY DEF AnalyseGlobal, Visit, IInv
<1>2. statement' = 0 BY <1>1, OutsideFunction
<1>3. next \in 1..Len(file) /\ node.name \in Names /\ node.type \in Proper
      /\ node.body \in Seq(Statements) /\ Len(file) \in Nat
  BY <1>1, NodeFacts
<1>4. IsTable(globals', Names, Proper)
  <2>1. {node.name} \in SUBSET Names BY <1>3
  <2>2. globals' = emplace(globals, {node.name}, node.type) BY DEF AnalyseGlobal
  <2>3. IsTable(globals, Names, Proper) BY <1>1 DEF Typed, TablesTyped
  <2> QED BY <1>3, <2>1, <2>2, <2>3, EmplaceTyped
<1>5. CASE node.body = <<>>
  <2>1. UNCHANGED <<functions, enums, members, notes, errorNumber>> BY <1>5 DEF AnalyseGlobal
  <2>2. TablesTyped' BY <1>1, <1>4, <2>1 DEF Typed, TablesTyped
  <2>3. EnumValuesFit' BY <2>1 DEF IInv, EnumValuesFit
  <2> QED BY <1>1, <1>2, <2>1, <2>2, <2>3, VisitedInv DEF Typed, OutputTyped, IInv, StructsLaidOut
<1>6. CASE node.body # <<>>
  <2> DEFINE env == Tables(globals', <<>>, FALSE)
  <2>1. Analyse(env, node.body[1], node.type, <<next, 1>>) BY <1>6 DEF AnalyseGlobal
  <2>2. node.body[1] \in Statements
    <3>1. 1 \in DOMAIN node.body BY <1>3, <1>6
    <3> QED BY <1>3, <3>1, ElementOf
  <2>3. ProperTables(env)
    <3>1. IsTable(<<>>, Names, Proper) BY DEF IsTable
    <3> QED BY <1>1, <1>4, <3>1, TablesProper DEF Typed
  <2>4. <<next, 1>> \in Nat \X Nat BY <1>3
  <2> HIDE DEF env
  <2>5. /\ errorNumber' \in Nat
        /\ IsTable(functions', Names, ProperFunctions)
        /\ IsTable(enums', Names, BackingKinds)
        /\ IsTable(members', EnumKeys, ProperInfos)
        /\ IsTable(notes', Nat \X Nat, ProperNotes)
        /\ DOMAIN notes' = DOMAIN notes \cup {<<next, 1>>}
        /\ DOMAIN functions \subseteq DOMAIN functions'
        /\ EnumValuesFit'
    BY <1>1, <1>3, <2>1, <2>2, <2>3, <2>4, AnalyseTyped DEF IInv
  <2>6. TablesTyped' BY <1>1, <1>4, <2>5 DEF Typed, TablesTyped
  <2> QED BY <1>1, <1>2, <2>5, <2>6, VisitedInv DEF Typed, OutputTyped, IInv, StructsLaidOut
<1> QED BY <1>5, <1>6

LEMMA AnalyseEnumInv == IInv /\ AnalyseEnum => IInv'
<1> SUFFICES ASSUME IInv, AnalyseEnum PROVE IInv'
  OBVIOUS
<1>1. /\ stage = "analyse" /\ next <= Len(file) /\ node.decl = "enum" /\ Visited
      /\ UNCHANGED <<functions, globals, structs, currentFunc, errorNumber, statement, notes>>
      /\ Typed
  BY DEF AnalyseEnum, Visit, IInv
<1>2. statement' = 0 BY <1>1, OutsideFunction
<1>3. node.name \in Names /\ node.parts \in Seq([name : Members, value : Nat])
  BY <1>1, NodeFacts DEF ProperParts
<1>4. BackingKind(node) \in BackingKinds BY BackingFacts
<1>5. ASSUME NEW key \in MemberKeys(node)
      PROVE  /\ key \in EnumKeys /\ key[2] \in NamesIn(node.parts)
             /\ FirstNamed(node.parts, key[2]) \in [name : Members, value : Nat]
             /\ First(Named(node.parts, key[2])) \in DOMAIN node.parts
  <2>1. key[1] = node.name /\ key[2] \in NamesIn(node.parts) /\ key = <<key[1], key[2]>>
    BY DEF MemberKeys
  <2>2. /\ FirstNamed(node.parts, key[2]) \in [name : Members, value : Nat]
        /\ First(Named(node.parts, key[2])) \in DOMAIN node.parts
        /\ FirstNamed(node.parts, key[2]).name = key[2]
    BY <1>3, <2>1, FirstNamedFacts
  <2> QED BY <1>3, <2>1, <2>2 DEF EnumKeys
<1>6. ASSUME NEW key \in DOMAIN members'
      PROVE  \/ key \in DOMAIN members /\ members'[key] = members[key]
             \/ /\ key \in MemberKeys(node)
                /\ members'[key] = MemberInfo(FirstNamed(node.parts, key[2]).value, BackingKind(node))
  BY <1>6 DEF AnalyseEnum
<1>7. IsTable(members', EnumKeys, ProperInfos)
  <2>1. ASSUME NEW key \in MemberKeys(node)
        PROVE  MemberInfo(FirstNamed(node.parts, key[2]).value, BackingKind(node)) \in ProperInfos
    BY <1>4, <1>5 DEF MemberInfo, ProperInfos
  <2>2. IsTable(members, EnumKeys, ProperInfos) BY <1>1 DEF Typed, TablesTyped
  <2> QED BY <1>5, <1>6, <2>1, <2>2 DEF IsTable
<1>8. IsTable(enums', Names, BackingKinds)
  <2>1. {node.name} \in SUBSET Names BY <1>3
  <2>2. IsTable(enums, Names, BackingKinds) BY <1>1 DEF Typed, TablesTyped
  <2> QED BY <1>4, <2>1, <2>2, EmplaceTyped DEF AnalyseEnum
<1>9. EnumValuesFit'
  <2>1. ASSUME NEW key \in MemberKeys(node), BackingKind(node) = "UINT8"
        PROVE  FirstNamed(node.parts, key[2]).value <= 255
    <3>1. ~(FirstNamed(node.parts, key[2]).value > 255)
      BY <1>5, <2>1, BackingFacts DEF FirstNamed
    <3> QED BY <1>5, <3>1
  <2>2. ASSUME NEW key \in DOMAIN members', members'[key].kind = "UINT8"
        PROVE  members'[key].value <= 255
    <3>1. CASE key \in DOMAIN members /\ members'[key] = members[key]
      BY <2>2, <3>1 DEF IInv, EnumValuesFit
    <3>2. CASE /\ key \in MemberKeys(node)
               /\ members'[key] = MemberInfo(FirstNamed(node.parts, key[2]).value, BackingKind(node))
      BY <2>1, <2>2, <3>2 DEF MemberInfo
    <3> QED BY <1>6, <3>1, <3>2
  <2> QED BY <2>2 DEF EnumValuesFit
<1>10. TablesTyped' BY <1>1, <1>7, <1>8 DEF Typed, TablesTyped
<1> QED BY <1>1, <1>2, <1>9, <1>10, VisitedInv DEF Typed, OutputTyped, IInv, StructsLaidOut

(* Structs among the members or parameters were declared before, and so    *)
(* they are laid out.                                                      *)
LEMMA StructsFound ==
  ASSUME IInv, stage = "analyse", next <= Len(file), node.decl \in {"struct", "function"}
  PROVE  LET found == emplace(structs, StructNames(node.parts), FALSE)
         IN  DOMAIN found = DOMAIN structs /\ \A n \in DOMAIN found : found[n]
<1>1. Typed /\ next \in 1..Len(file) /\ DOMAIN file = 1..Len(file) /\ Len(file) \in Nat
  BY NodeFacts DEF IInv
<1>2. ASSUME NEW p \in DOMAIN node.parts, node.parts[p].type.kind = "STRUCT"
      PROVE  node.parts[p].type.name \in DOMAIN structs
  <2>1. StructBefore(file, next, node.parts[p].type)
    BY <1>1 DEF IInv, StructsOrdered, node
  <2>2. PICK j \in DOMAIN file : /\ j < next /\ file[j].decl = "struct"
                                 /\ file[j].name = node.parts[p].type.name
    BY <1>2, <2>1 DEF StructBefore
  <2>3. j \in 1..next-1 BY <1>1, <2>2
  <2> QED BY <2>2, <2>3 DEF IInv, StructsLaidOut
<1>3. StructNames(node.parts) \subseteq DOMAIN structs BY <1>2 DEF StructNames
<1> QED BY <1>3 DEF emplace, IInv, StructsLaidOut

LEMMA AnalyseStructInv == IInv /\ AnalyseStruct => IInv'
<1> SUFFICES ASSUME IInv, AnalyseStruct PROVE IInv'
  OBVIOUS
<1>1. /\ stage = "analyse" /\ next <= Len(file) /\ node.decl = "struct" /\ Visited
      /\ UNCHANGED <<functions, globals, enums, members, currentFunc, errorNumber, statement, notes>>
      /\ Typed
  BY DEF AnalyseStruct, Visit, IInv
<1>2. statement' = 0 BY <1>1, OutsideFunction
<1>3. node.name \in Names BY <1>1, NodeFacts
<1> DEFINE found == emplace(structs, StructNames(node.parts), FALSE)
<1>4. DOMAIN found = DOMAIN structs /\ \A n \in DOMAIN found : found[n]
  BY <1>1, StructsFound
<1>5. structs' = emplace(found, {node.name}, TRUE) BY DEF AnalyseStruct
<1> HIDE DEF found
<1>6. /\ DOMAIN structs' = {node.name} \cup DOMAIN structs
      /\ \A n \in DOMAIN structs' : structs'[n]
      /\ \A n \in DOMAIN structs' :
           structs'[n] = TRUE \/ (n \in DOMAIN found /\ structs'[n] = found[n])
  BY <1>4, <1>5 DEF emplace
<1>7. IsTable(structs', Names, BOOLEAN)
  <2>1. \A n \in DOMAIN structs : structs[n] \in BOOLEAN BY <1>1 DEF Typed, TablesTyped, IsTable
  <2>2. ASSUME NEW n \in DOMAIN found PROVE found[n] \in BOOLEAN
    BY <1>4, <2>1 DEF found, emplace
  <2> QED BY <1>1, <1>3, <1>6, <2>2 DEF Typed, TablesTyped, IsTable
<1>8. TablesTyped' BY <1>1, <1>7 DEF Typed, TablesTyped
<1>9. EnumValuesFit' BY <1>1 DEF IInv, EnumValuesFit
<1> QED BY <1>1, <1>2, <1>6, <1>8, <1>9, VisitedInv DEF Typed, OutputTyped

(* A step inside a function stays at its declaration.                      *)
LEMMA InsideInv ==
  ASSUME IInv, stage = "analyse", next <= Len(file), node.decl = "function",
         UNCHANGED <<stage, verdict, parser, functionCounter, next, ids, prog>>,
         statement' \in 1..Len(node.body)+1,
         TablesTyped', errorNumber' \in Nat, currentFunc' \in Proper,
         DOMAIN functions \subseteq DOMAIN functions',
         IsTable(notes', Nat \X Nat, ProperNotes), DOMAIN notes \subseteq DOMAIN notes',
         \A j \in 1..statement'-1 : <<next, j>> \in DOMAIN notes',
         \A n \in DOMAIN structs' : structs'[n], DOMAIN structs \subseteq DOMAIN structs',
         EnumValuesFit'
  PROVE  IInv'
<1>1. /\ ParserTyped' /\ SelfNamed' /\ StructsOrdered' /\ TypesAsClaimed'
      /\ file' = file
  BY LaterStep DEF Later
<1>2. Typed /\ next \in 1..Len(file) /\ Len(file) \in Nat /\ DOMAIN file = 1..Len(file)
      /\ Len(node.body) \in Nat /\ node = file[next]
  BY NodeFacts DEF IInv, node
<1>3. PlaceTyped' BY <1>1, <1>2 DEF PlaceTyped, ParserStages
<1>4. FunctionsKnown' BY <1>1, <1>2 DEF Typed, FunctionsKnown, ParserStages
<1>5. NotesWritten' BY <1>1, <1>2 DEF Typed, NotesWritten
<1>6. OutputTyped' BY <1>2 DEF Typed, OutputTyped
<1>7. StructsLaidOut' BY <1>1 DEF IInv, StructsLaidOut
<1> QED BY <1>1, <1>3, <1>4, <1>5, <1>6, <1>7 DEF IInv, Typed

LEMMA EnterFunctionInv == IInv /\ EnterFunction => IInv'
<1> SUFFICES ASSUME IInv, EnterFunction PROVE IInv'
  OBVIOUS
<1>1. /\ stage = "analyse" /\ next <= Len(file) /\ node.decl = "function" /\ statement = 0
      /\ statement' = 1 /\ Typed
      /\ UNCHANGED <<stage, verdict, parser, functions, globals, enums, members, functionCounter,
                 errorNumber, next, ids, notes, prog>>
  BY DEF EnterFunction, Visit, IInv
<1>2. node.name \in Names /\ Len(node.body) \in Nat /\ next \in DOMAIN file
  BY <1>1, NodeFacts
<1>3. currentFunc' \in Proper
  <2>1. node.name \in DOMAIN functions
    BY <1>1, <1>2 DEF Typed, FunctionsKnown, node
  <2>2. functions[node.name] \in ProperFunctions
    BY <1>1, <2>1 DEF Typed, TablesTyped, IsTable
  <2> QED BY <2>2 DEF EnterFunction, ProperFunctions
<1>4. /\ DOMAIN structs' = DOMAIN structs /\ \A n \in DOMAIN structs' : structs'[n]
      /\ structs' = emplace(structs, StructNames(node.parts), FALSE)
  BY <1>1, StructsFound DEF EnterFunction
<1>5. IsTable(structs', Names, BOOLEAN)
  <2>1. IsTable(structs, Names, BOOLEAN) BY <1>1 DEF Typed, TablesTyped
  <2>2. \A n \in DOMAIN structs : structs[n] \in BOOLEAN BY <2>1 DEF IsTable
  <2>3. \A n \in DOMAIN structs : structs'[n] \in BOOLEAN BY <1>4, <2>2 DEF emplace
  <2> QED BY <1>4, <2>1, <2>3 DEF IsTable
<1>6. TablesTyped' BY <1>1, <1>5 DEF Typed, TablesTyped
<1>7. EnumValuesFit' BY <1>1 DEF IInv, EnumValuesFit
<1>8. statement' \in 1..Len(node.body)+1 /\ 1..statement'-1 = {} BY <1>1, <1>2
<1> QED BY <1>1, <1>3, <1>4, <1>6, <1>7, <1>8, InsideInv DEF Typed, OutputTyped

LEMMA AnalyseStatementInv == IInv /\ AnalyseStatement => IInv'
<1> SUFFICES ASSUME IInv, AnalyseStatement PROVE IInv'
  OBVIOUS
<1> DEFINE env == Tables(globals, Bound(node), TRUE)
<1>1. /\ stage = "analyse" /\ next <= Len(file) /\ node.decl = "function"
      /\ statement \in DOMAIN node.body /\ statement' = statement + 1 /\ Typed
      /\ Analyse(env, node.body[statement], currentFunc, <<next, statement>>)
      /\ UNCHANGED <<stage, verdict, parser, globals, structs, functionCounter, currentFunc, next,
                     ids, prog>>
  BY DEF AnalyseStatement, Visit, IInv
<1>2. /\ next \in DOMAIN file /\ next \in 1..Len(file) /\ node.body \in Seq(Statements)
      /\ node \in DeclarationsOf("function") /\ Len(node.body) \in Nat
      /\ DOMAIN node.body = 1..Len(node.body) /\ Len(file) \in Nat
  BY <1>1, NodeFacts
<1>3. ProperTables(env)
  <2>1. IsTable(Bound(node), Names, Proper) BY <1>2, BoundProper
  <2>2. IsTable(globals, Names, Proper) BY <1>1 DEF Typed, TablesTyped
  <2> QED BY <1>1, <2>1, <2>2, TablesProper DEF Typed
<1>4. node.body[statement] \in Statements BY <1>1, <1>2, ElementOf
<1>5. currentFunc \in Proper /\ <<next, statement>> \in Nat \X Nat
  BY <1>1, <1>2 DEF Typed, OutputTyped
<1> HIDE DEF env
<1>6. /\ errorNumber' \in Nat
      /\ IsTable(functions', Names, ProperFunctions)
      /\ IsTable(enums', Names, BackingKinds)
      /\ IsTable(members', EnumKeys, ProperInfos)
      /\ IsTable(notes', Nat \X Nat, ProperNotes)
      /\ DOMAIN notes' = DOMAIN notes \cup {<<next, statement>>}
      /\ DOMAIN functions \subseteq DOMAIN functions'
      /\ EnumValuesFit'
  BY <1>1, <1>3, <1>4, <1>5, AnalyseTyped DEF IInv
<1>7. TablesTyped' BY <1>1, <1>6 DEF Typed, TablesTyped
<1>8. statement' \in 1..Len(node.body)+1 BY <1>1, <1>2
<1>9. ASSUME NEW j \in 1..statement'-1 PROVE <<next, j>> \in DOMAIN notes'
  <2>1. j \in 1..statement-1 \/ j = statement BY <1>1, <1>2
  <2>2. j \in 1..statement-1 => <<next, j>> \in DOMAIN notes
    BY <1>1 DEF Typed, NotesWritten
  <2> QED BY <1>6, <2>1, <2>2
<1>10. currentFunc' \in Proper /\ \A n \in DOMAIN structs' : structs'[n]
  BY <1>1, <1>5 DEF IInv, StructsLaidOut
<1>11. UNCHANGED <<stage, verdict, parser, functionCounter, next, ids, prog>> BY <1>1
<1>12. DOMAIN structs \subseteq DOMAIN structs' BY <1>1
<1> QED BY <1>1, <1>6, <1>7, <1>8, <1>9, <1>10, <1>11, <1>12, InsideInv

LEMMA LeaveFunctionInv == IInv /\ LeaveFunction => IInv'
<1> SUFFICES ASSUME IInv, LeaveFunction PROVE IInv'
  OBVIOUS
<1>1. /\ stage = "analyse" /\ next <= Len(file) /\ node.decl = "function" /\ Visited
      /\ statement = Len(node.body) + 1 /\ statement' = 0 /\ Typed
      /\ UNCHANGED <<functions, globals, enums, members, structs, currentFunc, notes>>
  BY DEF LeaveFunction, Visit, IInv, tables
<1>2. errorNumber' \in Nat
  <2> DEFINE messages == IF node.type.kind # "VOID" /\ ~hasReturn(node.body)
                         THEN {"no return"} ELSE {}
  <2>1. errorNumber' = errorNumber + Cardinality(messages) BY DEF LeaveFunction, Errors
  <2>2. messages = {} \/ messages = {"no return"} OBVIOUS
  <2>5. errorNumber \in Nat BY <1>1 DEF Typed, OutputTyped
  <2> HIDE DEF messages
  <2>3. Cardinality({}) = 0 BY FS_EmptySet
  <2>4. Cardinality({"no return"}) = 1 BY FS_Singleton
  <2>6. CASE messages = {} BY <2>1, <2>3, <2>5, <2>6
  <2>7. CASE messages = {"no return"}
    <3>1. Cardinality(messages) = 1 BY <2>4, <2>7, Zenon
    <3> QED BY <2>1, <2>5, <3>1
  <2> QED BY <2>2, <2>6, <2>7
<1>3. \A j \in DOMAIN node.body : <<next, j>> \in DOMAIN notes
  <2>1. DOMAIN node.body = 1..Len(node.body) /\ Len(node.body) \in Nat BY <1>1, NodeFacts
  <2>2. DOMAIN node.body = 1..statement-1 BY <1>1, <2>1
  <2> QED BY <1>1, <2>2 DEF Typed, NotesWritten
<1>4. TablesTyped' BY <1>1 DEF Typed, TablesTyped
<1>5. EnumValuesFit' BY <1>1 DEF IInv, EnumValuesFit
<1> QED BY <1>1, <1>2, <1>3, <1>4, <1>5, VisitedInv DEF Typed, OutputTyped, IInv, StructsLaidOut

(* The compiler ends; only the verdict changes.                            *)
LEMMA EndInv ==
  ASSUME IInv, stage \in Later, stage' = "ended",
         verdict' \in {"rejected", "null code", "unsupported", "compiled"},
         UNCHANGED <<parser, analyser, next, statement, prog>>
  PROVE  IInv'
<1>1. /\ ParserTyped' /\ SelfNamed' /\ StructsOrdered' /\ TypesAsClaimed'
      /\ file' = file
  BY LaterStep
<1>2. UNCHANGED <<functions, globals, enums, members, structs, functionCounter, currentFunc,
                  errorNumber, ids, notes, next, statement, prog>>
  BY DEF analyser, tables
<1>3. Typed BY DEF IInv
<1>4. TablesTyped' BY <1>2, <1>3 DEF Typed, TablesTyped
<1>5. PlaceTyped' BY <1>1, <1>2, <1>3 DEF Typed, PlaceTyped, ParserStages
<1>6. FunctionsKnown' BY DEF FunctionsKnown, ParserStages
<1>7. NotesWritten' BY DEF NotesWritten
<1>8. OutputTyped' BY <1>2, <1>3 DEF Typed, OutputTyped
<1>9. StructsLaidOut' BY <1>2 DEF IInv, StructsLaidOut
<1>10. EnumValuesFit' BY <1>2 DEF IInv, EnumValuesFit
<1> QED BY <1>1, <1>4, <1>5, <1>6, <1>7, <1>8, <1>9, <1>10 DEF IInv, Typed

LEMMA EndingInv ==
  IInv /\ (\/ NullCode \/ StopOnErrors \/ EnumInNode \/ Finish
           \/ \E n \in Names : EnumGlobal(n)) => IInv'
<1>1. ASSUME IInv, NullCode \/ StopOnErrors \/ EnumInNode \/ Finish \/ \E n \in Names : EnumGlobal(n)
      PROVE  /\ stage \in Later /\ stage' = "ended"
             /\ verdict' \in {"rejected", "null code", "unsupported", "compiled"}
             /\ UNCHANGED <<parser, analyser, next, statement, prog>>
  BY <1>1 DEF NullCode, StopOnErrors, EnumInNode, Finish, EnumGlobal, Throw, Visit, Later
<1> QED BY <1>1, EndInv

(* The translator adds to the output.                                      *)
LEMMA EmitInv ==
  ASSUME IInv, stage \in {"globals", "translate"}, stage' \in {"globals", "translate"},
         UNCHANGED <<verdict, parser, analyser, statement>>,
         next' \in 1..Len(file)+1,
         prog' = [globals |-> prog'.globals, functions |-> prog'.functions],
         prog'.globals \in Seq(Names \X Proper), prog'.functions \in Seq(ProperEmissions)
  PROVE  IInv'
<1>1. /\ ParserTyped' /\ SelfNamed' /\ StructsOrdered' /\ TypesAsClaimed'
      /\ file' = file
  BY LaterStep DEF Later
<1>2. UNCHANGED <<functions, globals, enums, members, structs, functionCounter, currentFunc,
                  errorNumber, ids, notes, statement>>
  BY DEF analyser, tables
<1>3. Typed BY DEF IInv
<1>4. TablesTyped' BY <1>2, <1>3 DEF Typed, TablesTyped
<1>5. PlaceTyped' BY <1>1, <1>2, <1>3 DEF Typed, PlaceTyped, ParserStages
<1>6. FunctionsKnown' BY <1>1, <1>2, <1>3 DEF Typed, FunctionsKnown, ParserStages
<1>7. NotesWritten' BY <1>1, <1>2, <1>3 DEF Typed, NotesWritten
<1>8. OutputTyped' BY <1>2, <1>3 DEF Typed, OutputTyped
<1>9. StructsLaidOut' BY <1>2 DEF IInv, StructsLaidOut
<1>10. EnumValuesFit' BY <1>2 DEF IInv, EnumValuesFit
<1> QED BY <1>1, <1>4, <1>5, <1>6, <1>7, <1>8, <1>9, <1>10 DEF IInv, Typed

LEMMA EmitGlobalInv == ASSUME IInv, NEW n \in Names, EmitGlobal(n) PROVE IInv'
<1>1. Typed /\ stage = "globals" /\ stage' = "globals" BY DEF IInv, EmitGlobal
<1>2. globals[n] \in Proper BY <1>1 DEF EmitGlobal, Typed, TablesTyped, IsTable
<1>3. /\ prog' = [globals |-> Append(prog.globals, <<n, globals[n]>>), functions |-> prog.functions]
      /\ prog.globals \in Seq(Names \X Proper) /\ prog.functions \in Seq(ProperEmissions)
  BY <1>1 DEF EmitGlobal, Typed, OutputTyped
<1>4. Append(prog.globals, <<n, globals[n]>>) \in Seq(Names \X Proper)
  <2>1. <<n, globals[n]>> \in Names \X Proper BY <1>2
  <2> QED BY <1>3, <2>1
<1>5. next' \in 1..Len(file)+1 BY <1>1 DEF EmitGlobal, Typed, PlaceTyped
<1> QED BY <1>1, <1>3, <1>4, <1>5, EmitInv DEF EmitGlobal

LEMMA AllEmittedInv == ASSUME IInv, AllEmitted PROVE IInv'
<1>1. /\ stage = "globals" /\ stage' = "translate"
      /\ UNCHANGED <<verdict, parser, analyser, next, statement, prog>>
      /\ PlaceTyped /\ OutputTyped
  BY DEF AllEmitted, IInv, Typed
<1>2. next' \in 1..Len(file)+1 BY <1>1 DEF PlaceTyped
<1>3. /\ prog' = [globals |-> prog'.globals, functions |-> prog'.functions]
      /\ prog'.globals \in Seq(Names \X Proper) /\ prog'.functions \in Seq(ProperEmissions)
  BY <1>1 DEF OutputTyped
<1> QED BY <1>1, <1>2, <1>3, EmitInv

LEMMA SkipNodeInv == ASSUME IInv, SkipNode PROVE IInv'
<1>1. /\ stage = "translate" /\ stage' = "translate" /\ next <= Len(file) /\ next' = next + 1
      /\ UNCHANGED <<verdict, parser, analyser, statement, prog>>
      /\ Typed /\ OutputTyped
  BY DEF SkipNode, IInv, Typed
<1>2. next' \in 1..Len(file)+1 BY <1>1, NodeFacts
<1>3. /\ prog' = [globals |-> prog'.globals, functions |-> prog'.functions]
      /\ prog'.globals \in Seq(Names \X Proper) /\ prog'.functions \in Seq(ProperEmissions)
  BY <1>1 DEF OutputTyped
<1> QED BY <1>1, <1>2, <1>3, EmitInv

LEMMA TranslateFunctionInv == ASSUME IInv, TranslateFunction PROVE IInv'
<1> DEFINE code == [j \in DOMAIN node.body |->
                      Instruction(members, node.body[j], notes[<<next, j>>].id)]
           emission == [id |-> ids[next], retType |-> node.type, code |-> code]
<1>1. /\ stage = "translate" /\ stage' = "translate" /\ next <= Len(file) /\ next' = next + 1
      /\ node.decl = "function"
      /\ UNCHANGED <<verdict, parser, analyser, statement>>
      /\ prog' = [prog EXCEPT !.functions = Append(@, emission)]
      /\ Typed
  BY DEF TranslateFunction, IInv
<1>2. /\ next \in 1..Len(file) /\ next \in DOMAIN file /\ Len(file) \in Nat /\ node.type \in Proper
      /\ node.body \in Seq(Statements) /\ Len(node.body) \in Nat
      /\ DOMAIN node.body = 1..Len(node.body)
  BY <1>1, NodeFacts
<1>3. ids[next] \in Nat BY <1>1, <1>2 DEF Typed, OutputTyped, FunctionsKnown
<1>4. ASSUME NEW j \in DOMAIN node.body
      PROVE  Instruction(members, node.body[j], notes[<<next, j>>].id) \in ProperCode
  <2>1. <<next, j>> \in DOMAIN notes
    BY <1>1, <1>2, <1>4 DEF Typed, NotesWritten, node
  <2>2. notes[<<next, j>>] \in ProperNotes BY <1>1, <2>1 DEF Typed, OutputTyped, IsTable
  <2>3. notes[<<next, j>>].id \in Nat BY <2>2 DEF ProperNotes
  <2>4. node.body[j] \in Statements BY <1>2, ElementOf
  <2>5. IsTable(members, EnumKeys, ProperInfos) BY <1>1 DEF Typed, TablesTyped
  <2> QED BY <2>3, <2>4, <2>5, InstructionProper
<1>5. code \in Seq(ProperCode) BY <1>2, <1>4
<1>6. emission \in ProperEmissions
  <2> HIDE DEF code
  <2> QED BY <1>2, <1>3, <1>5 DEF ProperEmissions
<1> HIDE DEF emission
<1>7. /\ prog.globals \in Seq(Names \X Proper) /\ prog.functions \in Seq(ProperEmissions)
      /\ prog' = [globals |-> prog.globals, functions |-> Append(prog.functions, emission)]
  BY <1>1 DEF Typed, OutputTyped
<1>8. Append(prog.functions, emission) \in Seq(ProperEmissions) BY <1>6, <1>7
<1>9. next' \in 1..Len(file)+1 BY <1>1, <1>2
<1> QED BY <1>1, <1>7, <1>8, <1>9, EmitInv

(* No step and a step that changes nothing are alike.                      *)
LEMMA StutterInv == ASSUME IInv, UNCHANGED vars PROVE IInv'
<1>1. UNCHANGED <<stage, verdict, typeTable, file, current, counter, ahead, parts, functions,
                  globals, enums, members, structs, functionCounter, currentFunc, errorNumber,
                  ids, notes, next, statement, prog>>
  BY DEF vars, parser, analyser, tables
<1>2. ParserTyped' BY <1>1 DEF IInv, Typed, ParserTyped, CurrentTyped
<1>3. TablesTyped' BY <1>1 DEF IInv, Typed, TablesTyped
<1>4. PlaceTyped' BY <1>1 DEF IInv, Typed, PlaceTyped
<1>5. FunctionsKnown' /\ NotesWritten' BY <1>1 DEF IInv, Typed, FunctionsKnown, NotesWritten
<1>6. OutputTyped' BY <1>1 DEF IInv, Typed, OutputTyped
<1>7. SelfNamed' /\ StructsOrdered'
  BY <1>1 DEF IInv, SelfNamed, StructsOrdered
<1>8. TypesAsClaimed'
  BY <1>1, <1>2, ClaimedNow, ClaimedThen DEF IInv, ParserTyped
<1>9. StructsLaidOut' /\ EnumValuesFit' BY <1>1 DEF IInv, StructsLaidOut, EnumValuesFit
<1> QED BY <1>2, <1>3, <1>4, <1>5, <1>6, <1>7, <1>8, <1>9 DEF IInv, Typed

LEMMA NextInv == IInv /\ [Next]_vars => IInv'
<1> SUFFICES ASSUME IInv, [Next]_vars PROVE IInv'
  OBVIOUS
<1>1. CASE Parse BY <1>1, ParseInv
<1>2. CASE Register BY <1>2, RegisterInv
<1>3. CASE NextPass("register", "analyse") BY <1>3, NextPassInv
<1>4. CASE AnalyseGlobal BY <1>4, AnalyseGlobalInv
<1>5. CASE AnalyseEnum BY <1>5, AnalyseEnumInv
<1>6. CASE AnalyseStruct BY <1>6, AnalyseStructInv
<1>7. CASE EnterFunction BY <1>7, EnterFunctionInv
<1>8. CASE AnalyseStatement BY <1>8, AnalyseStatementInv
<1>9. CASE LeaveFunction BY <1>9, LeaveFunctionInv
<1>10. CASE GoOn BY <1>10, NextPassInv DEF GoOn
<1>11. CASE NullCode \/ StopOnErrors \/ EnumInNode \/ Finish BY <1>11, EndingInv
<1>12. ASSUME NEW n \in Names, EmitGlobal(n) \/ EnumGlobal(n) PROVE IInv'
  BY <1>12, EmitGlobalInv, EndingInv
<1>13. CASE AllEmitted BY <1>13, AllEmittedInv
<1>14. CASE TranslateFunction BY <1>14, TranslateFunctionInv
<1>15. CASE SkipNode BY <1>15, SkipNodeInv
<1>16. CASE Ended \/ UNCHANGED vars BY <1>16, StutterInv DEF Ended
<1> QED BY <1>1, <1>2, <1>3, <1>4, <1>5, <1>6, <1>7, <1>8, <1>9, <1>10, <1>11, <1>12, <1>13,
           <1>14, <1>15, <1>16 DEF Next

-----------------------------------------------------------------------------
(***************************************************************************)
(* Theorems.                                                               *)
(***************************************************************************)

(* The words mean what is claimed for them, the structs stand in the file  *)
(* before what holds them, the tables have what the passes rely on: all    *)
(* that follows rests on this, for programs of any size.                   *)
THEOREM InductiveInvariant == Spec => []IInv
<1>1. Init => IInv BY InitInv
<1>2. IInv /\ [Next]_vars => IInv' BY NextInv
<1> QED BY <1>1, <1>2, PTL DEF Spec

(* A declaration is well formed also where proper types are not asked for. *)
LEMMA DeclaredTyped ==
  ASSUME NEW d \in Declared
  PROVE  IsDeclaration(d)
<1>1. /\ d.decl \in DeclarationKinds /\ d.name \in Names /\ d.type \in Proper
      /\ d.defined \in BOOLEAN /\ d \in DeclarationsOf(d.decl)
      /\ d.parts \in Seq(ProperParts(d.decl)) /\ d.body \in Seq(Statements)
  BY DeclaredFacts
<1>2. d = [decl |-> d.decl, name |-> d.name, type |-> d.type, parts |-> d.parts,
           body |-> d.body, defined |-> d.defined]
  BY <1>1 DEF DeclarationsOf
<1>3. ProperParts(d.decl) \subseteq Parts(d.decl)
  BY <1>1 DEF ProperParts, Parts, DeclarationKinds, Proper
<1>4. d.parts \in Seq(Parts(d.decl)) BY <1>1, <1>3
<1> QED BY <1>1, <1>2, <1>4 DEF IsDeclaration, DeclarationKinds, Proper

(* The parser, the analyser and the translator keep every table and list   *)
(* in its type, and a visit inside the list it goes through: emplace and   *)
(* operator[] never insert a key or a value of another kind.               *)
THEOREM TypeCorrect == Spec => []TypeOK
<1>1. ASSUME IInv PROVE TypeOK
  <2> USE <1>1
  <2>1. Typed BY DEF IInv
  <2>2. Proper \subseteq Types BY DEF Proper
  <2>3. stage \in Stages /\ verdict \in Verdicts /\ (stage = "ended" <=> verdict # "none")
    BY <2>1 DEF Typed, ParserTyped
  <2>4. IsTable(typeTable, AllWords, Types) /\ DOMAIN builtinTypes \subseteq DOMAIN typeTable
    BY <2>1, <2>2 DEF Typed, ParserTyped, IsTable
  <2>5. file \in Seq({file[k] : k \in DOMAIN file}) /\ \A k \in DOMAIN file : IsDeclaration(file[k])
    <3>1. file \in Seq(Declared) BY <2>1 DEF Typed, ParserTyped
    <3>2. \A k \in DOMAIN file : file[k] \in Declared BY <3>1, ElementOf
    <3>3. file \in Seq({file[k] : k \in DOMAIN file}) BY <3>1
    <3> QED BY <3>2, <3>3, DeclaredTyped
  <2>6. /\ current # NoDeclaration => IsDeclaration(current)
        /\ stage \in {"enum", "struct"} => current.decl = stage
        /\ stage \in {"parameters", "body"} => current.decl = "function"
    BY <2>1, DeclaredTyped DEF Typed, ParserTyped, CurrentTyped, DeclarationsOf
  <2>7. counter \in Nat /\ ahead \in BOOLEAN /\ parts \in 0..MaxParts
    BY <2>1 DEF Typed, ParserTyped
  <2>8. IsTable(functions, Names, Functions)
    <3>1. ProperFunctions \subseteq Functions BY <2>2 DEF ProperFunctions, Functions
    <3> QED BY <2>1, <3>1 DEF Typed, TablesTyped, IsTable
  <2>9. IsTable(globals, Names, Types) BY <2>1, <2>2 DEF Typed, TablesTyped, IsTable
  <2>10. IsTable(enums, Names, Kinds) /\ IsTable(members, Keys, Infos)
    <3>1. BackingKinds \subseteq Kinds BY KindsFacts
    <3>2. ProperInfos \subseteq Infos BY <3>1 DEF ProperInfos, Infos
    <3> QED BY <2>1, <3>1, <3>2 DEF Typed, TablesTyped, IsTable, Keys, EnumKeys
  <2>11. IsTable(structs, Names, BOOLEAN) BY <2>1 DEF Typed, TablesTyped
  <2>12. functionCounter \in Nat /\ currentFunc \in Types /\ errorNumber \in Nat /\ ids \in Seq(Nat)
    BY <2>1, <2>2 DEF Typed, OutputTyped
  <2>13. /\ next \in 1..Len(file)+1
         /\ statement # 0 => /\ next \in DOMAIN file /\ file[next].decl = "function"
                             /\ statement \in 1..Len(file[next].body)+1
    <3>1. ASSUME statement # 0, next \in DOMAIN file PROVE Len(file[next].body) \in Nat
      <4>1. file[next] \in Declared BY <2>1, <3>1, ElementOf DEF Typed, ParserTyped
      <4> QED BY <4>1, DeclaredFacts
    <3> QED BY <2>1, <3>1 DEF Typed, PlaceTyped
  <2>14. IsTable(notes, Nat \X Nat, [id : Nat, types : SUBSET Types])
    <3>1. ProperNotes \subseteq [id : Nat, types : SUBSET Types] BY <2>2 DEF ProperNotes
    <3> QED BY <2>1, <3>1 DEF Typed, OutputTyped, IsTable
  <2>15. prog.globals \in Seq(Names \X Types)
    <3>1. Names \X Proper \subseteq Names \X Types BY <2>2
    <3> QED BY <2>1, <3>1 DEF Typed, OutputTyped
  <2>16. prog.functions \in Seq([id : Nat, retType : Types, code : Seq(Code)])
    <3>1. ProperInfos \subseteq Infos
      <4>1. BackingKinds \subseteq Kinds BY KindsFacts
      <4> QED BY <4>1 DEF ProperInfos, Infos
    <3> DEFINE wide   == [node : {"literal", "access"}] \cup Infos
               narrow == [node : {"literal", "access"}] \cup ProperInfos
    <3>2. narrow \subseteq wide BY <3>1
    <3> HIDE DEF wide, narrow
    <3>3. Seq(narrow) \subseteq Seq(wide) BY <3>2
    <3>4. ProperCode \subseteq Code BY <3>3 DEF ProperCode, Code, wide, narrow
    <3>5. Seq(ProperCode) \subseteq Seq(Code) BY <3>4
    <3>6. ProperEmissions \subseteq [id : Nat, retType : Types, code : Seq(Code)]
      BY <2>2, <3>5 DEF ProperEmissions
    <3> DEFINE emissions == [id : Nat, retType : Types, code : Seq(Code)]
    <3>7. ProperEmissions \subseteq emissions BY <3>6
    <3>8. prog.functions \in Seq(ProperEmissions) BY <2>1 DEF Typed, OutputTyped
    <3> HIDE DEF emissions
    <3>9. prog.functions \in Seq(emissions) BY <3>7, <3>8
    <3> QED BY <3>9 DEF emissions
  <2> QED BY <2>3, <2>4, <2>5, <2>6, <2>7, <2>8, <2>9, <2>10, <2>11, <2>12, <2>13, <2>14,
             <2>15, <2>16 DEF TypeOK
<1> QED BY <1>1, InductiveInvariant, PTL

(* A word is the type that the first declaration which claims it makes of  *)
(* it, and never anything else later (typeTable of the parser).            *)
THEOREM WordsMeanWhatIsClaimed == Spec => []TypesAsClaimed
<1>1. IInv => TypesAsClaimed BY DEF IInv
<1> QED BY <1>1, InductiveInvariant, PTL

(* structSize and the frames of functions only ever find structs that have *)
(* been laid out: what parse_struct lets a field or a parameter name       *)
(* stands before it in the file, and is visited before it.                 *)
THEOREM StructsBeforeUse == Spec => []StructsComplete
<1>1. IInv => StructsComplete BY DEF IInv, StructsLaidOut, StructsComplete
<1> QED BY <1>1, InductiveInvariant, PTL

(* max_value finds a backing type that holds every value of its enum.      *)
THEOREM EnumsFit == Spec => []EnumValuesFit
<1>1. IInv => EnumValuesFit BY DEF IInv
<1> QED BY <1>1, InductiveInvariant, PTL

-----------------------------------------------------------------------------
(***************************************************************************)
(* Compiler implements CompilerPromise, for programs of any size.          *)
(***************************************************************************)

(***************************************************************************)
(* An instance has its own copy of every operator below it; the copies say *)
(* the same.                                                               *)
(***************************************************************************)
LEMMA SameCardinality == \A S : Promise!Cardinality(S) = Cardinality(S)
BY DEF Promise!Cardinality, Cardinality

LEMMA SameTypes ==
  /\ Promise!Untyped = Untyped
  /\ \A k : Promise!Builtin(k) = Builtin(k)
  /\ \A l, r : Promise!resolve_type(l, r) = resolve_type(l, r)
  /\ \A from, to, backed : Promise!TypeError(from, to, backed) <=> TypeError(from, to, backed)
<1>1. \A k : Promise!Builtin(k) = Builtin(k)
  BY DEF Promise!Builtin, Builtin
<1>2. Promise!Untyped = Untyped
  BY <1>1 DEF Promise!Untyped, Untyped
<1>3. \A l, r : Promise!resolve_type(l, r) = resolve_type(l, r)
  BY DEF Promise!resolve_type, resolve_type, Promise!Ladder, Ladder, Promise!Builtin, Builtin
<1>4. Promise!typeSize = typeSize
  BY DEF Promise!typeSize, typeSize, Promise!Kinds, Kinds
<1>5. \A t, backed : Promise!PromotionSize(t, backed) = PromotionSize(t, backed)
  BY <1>4 DEF Promise!PromotionSize, PromotionSize
<1>6. \A from, to, backed : Promise!tryPromote(from, to, backed) = tryPromote(from, to, backed)
  BY <1>3, <1>5 DEF Promise!tryPromote, tryPromote
<1>7. \A from, to, backed : Promise!TypeError(from, to, backed) <=> TypeError(from, to, backed)
  BY <1>6 DEF Promise!TypeError, TypeError
<1> QED BY <1>1, <1>2, <1>3, <1>7

LEMMA SameLists ==
  /\ \A S : Promise!First(S) = First(S)
  /\ \A list, n : Promise!FirstNamed(list, n) = FirstNamed(list, n)
  /\ \A list : Promise!NamesIn(list) = NamesIn(list)
  /\ \A d : Promise!Bound(d) = Bound(d)
  /\ \A d, id : Promise!FunctionInfo(d, id) = FunctionInfo(d, id)
  /\ \A d : Promise!BackingKind(d) = BackingKind(d)
  /\ \A value, kind : Promise!MemberInfo(value, kind) = MemberInfo(value, kind)
  /\ \A body : Promise!hasReturn(body) <=> hasReturn(body)
<1>1. \A S : Promise!First(S) = First(S) BY DEF Promise!First, First
<1>2. \A list, n : Promise!Named(list, n) = Named(list, n) BY DEF Promise!Named, Named
<1>3. \A list, n : Promise!FirstNamed(list, n) = FirstNamed(list, n)
  BY <1>1, <1>2 DEF Promise!FirstNamed, FirstNamed
<1>4. \A list : Promise!NamesIn(list) = NamesIn(list) BY DEF Promise!NamesIn, NamesIn
<1>5. ASSUME NEW d PROVE Promise!Bound(d) = Bound(d)
  BY <1>3, <1>4 DEF Promise!Bound, Bound
<1>6. \A d, id : Promise!FunctionInfo(d, id) = FunctionInfo(d, id)
  BY DEF Promise!FunctionInfo, FunctionInfo
<1>7. \A d : Promise!BackingKind(d) = BackingKind(d) BY DEF Promise!BackingKind, BackingKind
<1>8. \A value, kind : Promise!MemberInfo(value, kind) = MemberInfo(value, kind)
  BY DEF Promise!MemberInfo, MemberInfo
<1>9. \A body : Promise!hasReturn(body) <=> hasReturn(body)
  BY DEF Promise!hasReturn, hasReturn
<1> QED BY <1>1, <1>3, <1>4, <1>5, <1>6, <1>7, <1>8, <1>9

LEMMA SameLookups ==
  ASSUME NEW env
  PROVE  /\ \A f : Promise!function(env, f) = function(env, f)
         /\ \A key : Promise!member(env, key) = member(env, key)
         /\ Promise!backing(env) = backing(env)
         /\ \A e : Promise!type_precision(env, e) = type_precision(env, e)
         /\ Promise!NoMember = NoMember
<1>1. Promise!NoFunction = NoFunction /\ Promise!NoMember = NoMember
  BY SameTypes, SameLists DEF Promise!NoFunction, NoFunction, Promise!NoMember, NoMember
<1>2. \A f : Promise!function(env, f) = function(env, f)
  BY <1>1 DEF Promise!function, function
<1>3. \A key : Promise!member(env, key) = member(env, key)
  BY <1>1 DEF Promise!member, member
<1>4. Promise!backing(env) = backing(env)
  BY SameTypes DEF Promise!backing, backing
<1>5. \A n : Promise!variableType(env, n) = variableType(env, n)
  BY SameTypes DEF Promise!variableType, variableType
<1>6. \A e : Promise!type_precision(env, e) = type_precision(env, e)
  BY <1>2, <1>3, <1>5, SameTypes DEF Promise!type_precision, type_precision
<1> QED BY <1>1, <1>2, <1>3, <1>4, <1>6

LEMMA SameChecks ==
  ASSUME NEW env, NEW s, NEW to
  PROVE  /\ Promise!StatementErrors(env, s, to) = StatementErrors(env, s, to)
         /\ Promise!EnumsLookedUp(env, s, to) = EnumsLookedUp(env, s, to)
         /\ Promise!MembersLookedUp(env, s) = MembersLookedUp(env, s)
         /\ Promise!TypesTranslated(env, s, to) = TypesTranslated(env, s, to)
<1>1. Promise!Converted(env, s) = Converted(env, s)
  BY SameLookups DEF Promise!Converted, Converted, Promise!Compared, Compared
<1>2. \A i : Promise!Expression(s, i) = Expression(s, i)
  BY DEF Promise!Expression, Expression
<1>3. \A i : Promise!From(env, s, i) = From(env, s, i)
  BY <1>2, SameLookups DEF Promise!From, From
<1>4. \A i : Promise!Into(env, s, to, i) = Into(env, s, to, i)
  BY SameLookups DEF Promise!Into, Into
<1>5. Promise!ExpressionErrors(env, s.value) = ExpressionErrors(env, s.value)
  BY SameLookups DEF Promise!ExpressionErrors, ExpressionErrors
<1>6. Promise!StatementErrors(env, s, to) = StatementErrors(env, s, to)
  BY <1>1, <1>3, <1>4, <1>5, SameTypes, SameLookups DEF Promise!StatementErrors, StatementErrors
<1>7. \A from, into : Promise!SizesCompared(from, into) <=> SizesCompared(from, into)
  BY SameTypes DEF Promise!SizesCompared, SizesCompared
<1>8. Promise!EnumsLookedUp(env, s, to) = EnumsLookedUp(env, s, to)
  BY <1>1, <1>3, <1>4, <1>7 DEF Promise!EnumsLookedUp, EnumsLookedUp
<1>9. Promise!MembersLookedUp(env, s) = MembersLookedUp(env, s)
  BY <1>1, <1>2 DEF Promise!MembersLookedUp, MembersLookedUp
<1>10. Promise!TypesTranslated(env, s, to) = TypesTranslated(env, s, to)
  BY <1>1, <1>3, <1>4, SameLookups DEF Promise!TypesTranslated, TypesTranslated
<1> QED BY <1>6, <1>8, <1>9, <1>10

LEMMA SameInstruction ==
  \A table, s, id : Promise!Instruction(table, s, id) = Instruction(table, s, id)
<1>1. \A table, e : Promise!Operand(table, e) = Operand(table, e)
  BY SameLookups DEF Promise!Operand, Operand
<1> QED BY <1>1 DEF Promise!Instruction, Instruction

-----------------------------------------------------------------------------
(***************************************************************************)
(* What CompilerPromise reads off the file, as operators on a list of      *)
(* declarations f: a step that leaves the file alone leaves them alone.    *)
(***************************************************************************)
AreIn(f, decl)    == {k \in DOMAIN f : f[k].decl = decl}
OfIn(f, decl, n)  == {k \in AreIn(f, decl) : f[k].name = n}
UptoIn(i, S)      == {k \in S : k <= i}
NamesAt(f, S)     == {f[k].name : k \in S}
IdIn(f, k)        == Cardinality(UptoIn(k - 1, AreIn(f, "function")))

FunctionsIn(f) ==
  [n \in NamesAt(f, AreIn(f, "function")) |->
     LET k == First(OfIn(f, "function", n)) IN FunctionInfo(f[k], IdIn(f, k))]

GlobalsIn(f, i) ==
  [n \in NamesAt(f, UptoIn(i, AreIn(f, "variable"))) |-> f[First(OfIn(f, "variable", n))].type]

EnumsIn(f, i) ==
  [n \in NamesAt(f, UptoIn(i, AreIn(f, "enum"))) |-> BackingKind(f[First(OfIn(f, "enum", n))])]

DeclaringIn(f, key) == {k \in OfIn(f, "enum", key[1]) : key[2] \in NamesIn(f[k].parts)}

MembersIn(f, i) ==
  [key \in {pair \in Names \X Members : UptoIn(i, DeclaringIn(f, pair)) # {}} |->
     LET enum == f[First(DeclaringIn(f, key))]
     IN  MemberInfo(FirstNamed(enum.parts, key[2]).value, BackingKind(enum))]

TablesIn(f, i) ==
  [functions |-> FunctionsIn(f), globals |-> GlobalsIn(f, i), enums |-> EnumsIn(f, i),
   members |-> MembersIn(f, i),
   parameters |-> IF f[i].decl = "function" THEN Bound(f[i]) ELSE <<>>,
   scoped |-> f[i].decl = "function"]

WantedIn(f, i) ==
  IF f[i].decl = "function" THEN FunctionsIn(f)[f[i].name].retType ELSE f[i].type

StatementRight(f, i, j) ==
  StatementErrors(TablesIn(f, i), f[i].body[j], WantedIn(f, i)) = {}

RightIn(f, i) ==
  /\ \A j \in DOMAIN f[i].body : StatementRight(f, i, j)
  /\ f[i].decl = "function" /\ f[i].type.kind # "VOID" => hasReturn(f[i].body)

AheadAt(f, i, j) ==
  \/ ~(EnumsLookedUp(TablesIn(f, i), f[i].body[j], WantedIn(f, i)) \subseteq DOMAIN EnumsIn(f, i))
  \/ ~(MembersLookedUp(TablesIn(f, i), f[i].body[j]) \subseteq DOMAIN MembersIn(f, i))

AheadIn(f) == \E i \in DOMAIN f : \E j \in DOMAIN f[i].body : AheadAt(f, i, j)

EnumTypeAt(f, i) ==
  \/ f[i].decl \in {"variable", "function"} /\ f[i].type.kind = "ENUM"
  \/ /\ f[i].decl = "function"
     /\ \E j \in DOMAIN f[i].body :
          \E t \in TypesTranslated(TablesIn(f, i), f[i].body[j], WantedIn(f, i)) : t.kind = "ENUM"

CalleeIn(f, s) == IF s.value.node = "call" THEN FunctionsIn(f)[s.value.name].id ELSE 0

EmissionIn(f, k) ==
  [id      |-> IdIn(f, k),
   retType |-> f[k].type,
   code    |-> [j \in DOMAIN f[k].body |->
                  Instruction(MembersIn(f, Len(f)), f[k].body[j], CalleeIn(f, f[k].body[j]))]]

LEMMA SameTables ==
  /\ \A decl : Promise!Are(decl) = AreIn(file, decl)
  /\ \A k : Promise!Id(k) = IdIn(file, k)
  /\ \A S : Promise!NamesOf(S) = NamesAt(file, S)
  /\ Promise!Functions = FunctionsIn(file)
  /\ \A i : Promise!Globals(i) = GlobalsIn(file, i)
  /\ \A i : Promise!Enums(i) = EnumsIn(file, i)
  /\ \A i : Promise!EnumMembers(i) = MembersIn(file, i)
  /\ \A i : Promise!Tables(i) = TablesIn(file, i)
  /\ \A i : Promise!Wanted(i) = WantedIn(file, i)
<1>1. \A decl : Promise!Are(decl) = AreIn(file, decl) BY DEF Promise!Are, AreIn
<1>2. \A decl, n : Promise!Of(decl, n) = OfIn(file, decl, n)
  BY <1>1 DEF Promise!Of, OfIn
<1>3. \A i, S : Promise!Upto(i, S) = UptoIn(i, S) BY DEF Promise!Upto, UptoIn
<1>4. \A S : Promise!NamesOf(S) = NamesAt(file, S) BY DEF Promise!NamesOf, NamesAt
<1>5. \A k : Promise!Id(k) = IdIn(file, k)
  BY <1>1, <1>3, SameCardinality DEF Promise!Id, IdIn
<1>6. Promise!Functions = FunctionsIn(file)
  BY <1>1, <1>2, <1>4, <1>5, SameLists DEF Promise!Functions, FunctionsIn
<1>7. \A i : Promise!Globals(i) = GlobalsIn(file, i)
  BY <1>1, <1>2, <1>3, <1>4, SameLists DEF Promise!Globals, GlobalsIn
<1>8. \A i : Promise!Enums(i) = EnumsIn(file, i)
  BY <1>1, <1>2, <1>3, <1>4, SameLists DEF Promise!Enums, EnumsIn
<1>9. \A key : Promise!Declaring(key) = DeclaringIn(file, key)
  BY <1>2, SameLists DEF Promise!Declaring, DeclaringIn
<1>10. \A i : Promise!EnumMembers(i) = MembersIn(file, i)
  BY <1>3, <1>9, SameLists DEF Promise!EnumMembers, MembersIn
<1>11. \A i : Promise!Tables(i) = TablesIn(file, i)
  BY <1>6, <1>7, <1>8, <1>10, SameLists DEF Promise!Tables, TablesIn
<1>12. \A i : Promise!Wanted(i) = WantedIn(file, i)
  BY <1>6 DEF Promise!Wanted, WantedIn
<1> QED BY <1>1, <1>4, <1>5, <1>6, <1>7, <1>8, <1>10, <1>11, <1>12

LEMMA SamePromise ==
  /\ \A i : Promise!Right(i) <=> RightIn(file, i)
  /\ Promise!UsesEnumAhead <=> AheadIn(file)
  /\ Promise!UsesEnumType <=> \E i \in DOMAIN file : EnumTypeAt(file, i)
  /\ \A s : Promise!Callee(s) = CalleeIn(file, s)
<1>1. \A i : Promise!Right(i) <=> RightIn(file, i)
  BY SameTables, SameLists, SameChecks DEF Promise!Right, RightIn, StatementRight
<1>2. Promise!UsesEnumAhead <=> AheadIn(file)
  BY SameTables, SameChecks DEF Promise!UsesEnumAhead, AheadIn, AheadAt
<1>3. Promise!UsesEnumType <=> \E i \in DOMAIN file : EnumTypeAt(file, i)
  BY SameTables, SameChecks DEF Promise!UsesEnumType, EnumTypeAt
<1>4. \A s : Promise!Callee(s) = CalleeIn(file, s)
  BY SameTables DEF Promise!Callee, CalleeIn
<1> QED BY <1>1, <1>2, <1>3, <1>4

-----------------------------------------------------------------------------
(***************************************************************************)
(* The tables of a list, one declaration after the other.                  *)
(***************************************************************************)
FunctionsUpto(f, i) ==
  [n \in NamesAt(f, UptoIn(i, AreIn(f, "function"))) |->
     LET k == First(OfIn(f, "function", n)) IN FunctionInfo(f[k], IdIn(f, k))]

LEMMA UptoFacts ==
  ASSUME NEW S, NEW f \in Seq(S), NEW d
  PROVE  /\ UptoIn(0, AreIn(f, d)) = {}
         /\ UptoIn(Len(f), AreIn(f, d)) = AreIn(f, d)
         /\ AreIn(f, d) \subseteq DOMAIN f
         /\ \A i \in DOMAIN f :
              /\ UptoIn(i, AreIn(f, d)) = IF f[i].decl = d THEN UptoIn(i-1, AreIn(f, d)) \cup {i}
                                          ELSE UptoIn(i-1, AreIn(f, d))
              /\ i \notin UptoIn(i-1, AreIn(f, d))
BY DEF UptoIn, AreIn

LEMMA UptoFinite ==
  ASSUME NEW S, NEW f \in Seq(S), NEW d, NEW i \in Nat
  PROVE  /\ IsFiniteSet(UptoIn(i, AreIn(f, d)))
         /\ Cardinality(UptoIn(i, AreIn(f, d))) \in Nat
         /\ UptoIn(i, AreIn(f, d)) \subseteq DOMAIN f
<1>1. UptoIn(i, AreIn(f, d)) \subseteq 1..Len(f) BY DEF UptoIn, AreIn
<1>2. IsFiniteSet(1..Len(f)) BY FS_Interval
<1>3. IsFiniteSet(UptoIn(i, AreIn(f, d))) BY <1>1, <1>2, FS_Subset
<1> QED BY <1>1, <1>3, FS_CardinalityType

LEMMA NamesGrow ==
  ASSUME NEW S, NEW f \in Seq(S), NEW d, NEW i \in DOMAIN f
  PROVE  /\ f[i].decl = d => NamesAt(f, UptoIn(i, AreIn(f, d))) =
                               {f[i].name} \cup NamesAt(f, UptoIn(i-1, AreIn(f, d)))
         /\ f[i].decl # d => UptoIn(i, AreIn(f, d)) = UptoIn(i-1, AreIn(f, d))
<1>1. /\ f[i].decl = d => UptoIn(i, AreIn(f, d)) = UptoIn(i-1, AreIn(f, d)) \cup {i}
      /\ f[i].decl # d => UptoIn(i, AreIn(f, d)) = UptoIn(i-1, AreIn(f, d))
  BY UptoFacts
<1> QED BY <1>1 DEF NamesAt

(* A name that is new is declared here first.                              *)
LEMMA FirstHere ==
  ASSUME NEW S, NEW f \in Seq(S), NEW d, NEW i \in DOMAIN f, f[i].decl = d,
         f[i].name \notin NamesAt(f, UptoIn(i-1, AreIn(f, d)))
  PROVE  First(OfIn(f, d, f[i].name)) = i
<1> DEFINE O == OfIn(f, d, f[i].name)
<1>1. O \in SUBSET Nat /\ i \in O /\ i \in Nat BY DEF OfIn, AreIn
<1>2. \A k \in O : ~(k <= i-1) BY DEF OfIn, NamesAt, UptoIn
<1> HIDE DEF O
<1>3. First(O) \in O /\ First(O) <= i BY <1>1, FirstFacts
<1>4. First(O) \in Nat /\ ~(First(O) <= i-1) BY <1>1, <1>2, <1>3
<1>5. First(O) = i BY <1>1, <1>3, <1>4
<1> QED BY <1>5 DEF O

LEMMA FunctionsGrow ==
  ASSUME NEW S, NEW f \in Seq(S), NEW i \in DOMAIN f
  PROVE  FunctionsUpto(f, i) =
           IF f[i].decl = "function"
           THEN emplace(FunctionsUpto(f, i-1), {f[i].name}, FunctionInfo(f[i], IdIn(f, i)))
           ELSE FunctionsUpto(f, i-1)
<1>1. CASE f[i].decl # "function" BY <1>1, NamesGrow DEF FunctionsUpto
<1>2. CASE f[i].decl = "function"
  <2> DEFINE known == NamesAt(f, UptoIn(i-1, AreIn(f, "function")))
             new   == FunctionInfo(f[i], IdIn(f, i))
             info(n) == FunctionInfo(f[First(OfIn(f, "function", n))],
                                     IdIn(f, First(OfIn(f, "function", n))))
  <2>1. NamesAt(f, UptoIn(i, AreIn(f, "function"))) = {f[i].name} \cup known
    BY <1>2, NamesGrow
  <2>2. f[i].name \notin known => info(f[i].name) = new
    BY <1>2, FirstHere
  <2>3. FunctionsUpto(f, i) = [n \in {f[i].name} \cup known |-> info(n)]
    BY <2>1 DEF FunctionsUpto
  <2>4. FunctionsUpto(f, i-1) = [n \in known |-> info(n)]
    BY DEF FunctionsUpto
  <2> HIDE DEF known, new, info
  <2>5. emplace([n \in known |-> info(n)], {f[i].name}, new)
          = [n \in {f[i].name} \cup known |-> info(n)]
    BY <2>2 DEF emplace
  <2> QED BY <1>2, <2>3, <2>4, <2>5 DEF new
<1> QED BY <1>1, <1>2

LEMMA GlobalsGrow ==
  ASSUME NEW S, NEW f \in Seq(S), NEW i \in DOMAIN f
  PROVE  GlobalsIn(f, i) =
           IF f[i].decl = "variable"
           THEN emplace(GlobalsIn(f, i-1), {f[i].name}, f[i].type)
           ELSE GlobalsIn(f, i-1)
<1>1. CASE f[i].decl # "variable" BY <1>1, NamesGrow DEF GlobalsIn
<1>2. CASE f[i].decl = "variable"
  <2> DEFINE known == NamesAt(f, UptoIn(i-1, AreIn(f, "variable")))
             new   == f[i].type
             type(n) == f[First(OfIn(f, "variable", n))].type
  <2>1. NamesAt(f, UptoIn(i, AreIn(f, "variable"))) = {f[i].name} \cup known
    BY <1>2, NamesGrow
  <2>2. f[i].name \notin known => type(f[i].name) = new
    BY <1>2, FirstHere
  <2>3. GlobalsIn(f, i) = [n \in {f[i].name} \cup known |-> type(n)]
    BY <2>1 DEF GlobalsIn
  <2>4. GlobalsIn(f, i-1) = [n \in known |-> type(n)]
    BY DEF GlobalsIn
  <2> HIDE DEF known, new, type
  <2>5. emplace([n \in known |-> type(n)], {f[i].name}, new)
          = [n \in {f[i].name} \cup known |-> type(n)]
    BY <2>2 DEF emplace
  <2> QED BY <1>2, <2>3, <2>4, <2>5 DEF new
<1> QED BY <1>1, <1>2

LEMMA EnumsGrow ==
  ASSUME NEW S, NEW f \in Seq(S), NEW i \in DOMAIN f
  PROVE  EnumsIn(f, i) =
           IF f[i].decl = "enum"
           THEN emplace(EnumsIn(f, i-1), {f[i].name}, BackingKind(f[i]))
           ELSE EnumsIn(f, i-1)
<1>1. CASE f[i].decl # "enum" BY <1>1, NamesGrow DEF EnumsIn
<1>2. CASE f[i].decl = "enum"
  <2> DEFINE known == NamesAt(f, UptoIn(i-1, AreIn(f, "enum")))
             new   == BackingKind(f[i])
             kind(n) == BackingKind(f[First(OfIn(f, "enum", n))])
  <2>1. NamesAt(f, UptoIn(i, AreIn(f, "enum"))) = {f[i].name} \cup known
    BY <1>2, NamesGrow
  <2>2. f[i].name \notin known => kind(f[i].name) = new
    BY <1>2, FirstHere
  <2>3. EnumsIn(f, i) = [n \in {f[i].name} \cup known |-> kind(n)]
    BY <2>1 DEF EnumsIn
  <2>4. EnumsIn(f, i-1) = [n \in known |-> kind(n)]
    BY DEF EnumsIn
  <2> HIDE DEF known, new, kind
  <2>5. emplace([n \in known |-> kind(n)], {f[i].name}, new)
          = [n \in {f[i].name} \cup known |-> kind(n)]
    BY <2>2 DEF emplace
  <2> QED BY <1>2, <2>3, <2>4, <2>5 DEF new
<1> QED BY <1>1, <1>2

LEMMA MembersGrow ==
  ASSUME NEW f \in Seq(Declared), NEW i \in DOMAIN f
  PROVE  MembersIn(f, i) =
           IF f[i].decl = "enum"
           THEN [key \in MemberKeys(f[i]) \cup DOMAIN MembersIn(f, i-1) |->
                   IF key \in DOMAIN MembersIn(f, i-1) THEN MembersIn(f, i-1)[key]
                   ELSE MemberInfo(FirstNamed(f[i].parts, key[2]).value, BackingKind(f[i]))]
           ELSE MembersIn(f, i-1)
<1> DEFINE known == {pair \in Names \X Members : UptoIn(i-1, DeclaringIn(f, pair)) # {}}
           info(key) == MemberInfo(FirstNamed(f[First(DeclaringIn(f, key))].parts, key[2]).value,
                                   BackingKind(f[First(DeclaringIn(f, key))]))
<1>1. MembersIn(f, i-1) = [key \in known |-> info(key)] BY DEF MembersIn
<1>2. i \in Nat /\ DOMAIN f \subseteq Nat OBVIOUS
<1>3. ASSUME NEW key
      PROVE  UptoIn(i, DeclaringIn(f, key)) =
               UptoIn(i-1, DeclaringIn(f, key)) \cup (IF i \in DeclaringIn(f, key) THEN {i} ELSE {})
  BY <1>2 DEF UptoIn, DeclaringIn, OfIn, AreIn
<1>4. ASSUME NEW key
      PROVE  i \in DeclaringIn(f, key) <=>
               f[i].decl = "enum" /\ f[i].name = key[1] /\ key[2] \in NamesIn(f[i].parts)
  BY DEF DeclaringIn, OfIn, AreIn
<1>5. CASE f[i].decl # "enum"
  <2>1. \A key : UptoIn(i, DeclaringIn(f, key)) = UptoIn(i-1, DeclaringIn(f, key))
    BY <1>3, <1>4, <1>5
  <2> QED BY <1>5, <2>1 DEF MembersIn
<1>6. CASE f[i].decl = "enum"
  <2>1. f[i].name \in Names /\ NamesIn(f[i].parts) \subseteq Members
    <3>1. f[i] \in Declared BY ElementOf
    <3>2. f[i].name \in Names /\ f[i].parts \in Seq([name : Members, value : Nat])
      BY <1>6, <3>1, DeclaredFacts DEF ProperParts
    <3>3. \A p \in DOMAIN f[i].parts : f[i].parts[p] \in [name : Members, value : Nat]
      BY <3>2, ElementOf
    <3> QED BY <3>2, <3>3 DEF NamesIn
  <2>2. \A key \in Names \X Members : i \in DeclaringIn(f, key) <=> key \in MemberKeys(f[i])
    BY <1>4, <1>6 DEF MemberKeys
  <2>3. MemberKeys(f[i]) \subseteq Names \X Members BY <2>1 DEF MemberKeys
  <2>4. {pair \in Names \X Members : UptoIn(i, DeclaringIn(f, pair)) # {}}
          = MemberKeys(f[i]) \cup known
    BY <1>3, <2>2, <2>3
  <2>5. ASSUME NEW key \in MemberKeys(f[i]), key \notin known PROVE First(DeclaringIn(f, key)) = i
    <3>1. i \in DeclaringIn(f, key) /\ DeclaringIn(f, key) \in SUBSET Nat
      BY <2>2, <2>3, <1>2 DEF DeclaringIn, OfIn, AreIn
    <3>2. UptoIn(i-1, DeclaringIn(f, key)) = {} BY <2>3, <2>5
    <3>3. First(DeclaringIn(f, key)) \in DeclaringIn(f, key) /\ First(DeclaringIn(f, key)) <= i
      BY <3>1, FirstFacts
    <3>4. ~(First(DeclaringIn(f, key)) <= i-1) BY <3>2, <3>3 DEF UptoIn
    <3> QED BY <1>2, <3>1, <3>3, <3>4
  <2>6. ASSUME NEW key \in MemberKeys(f[i]), key \notin known
        PROVE  info(key) = MemberInfo(FirstNamed(f[i].parts, key[2]).value, BackingKind(f[i]))
    BY <2>5, <2>6
  <2>7. MembersIn(f, i) = [key \in MemberKeys(f[i]) \cup known |-> info(key)]
    BY <2>4 DEF MembersIn
  <2> HIDE DEF known, info
  <2>8. DOMAIN MembersIn(f, i-1) = known BY <1>1
  <2> QED BY <1>1, <1>6, <2>6, <2>7, <2>8
<1> QED BY <1>5, <1>6

(* Nothing is known in front of the first declaration.                     *)
LEMMA TablesEmpty ==
  ASSUME NEW f \in Seq(Declared)
  PROVE  /\ FunctionsUpto(f, 0) = <<>> /\ GlobalsIn(f, 0) = <<>>
         /\ EnumsIn(f, 0) = <<>> /\ MembersIn(f, 0) = <<>>
         /\ FunctionsUpto(f, Len(f)) = FunctionsIn(f)
<1>1. \A d : UptoIn(0, AreIn(f, d)) = {} BY UptoFacts
<1>2. \A key : UptoIn(0, DeclaringIn(f, key)) = {} BY DEF UptoIn, DeclaringIn, OfIn, AreIn
<1>3. NamesAt(f, {}) = {} BY DEF NamesAt
<1>9. \A d : NamesAt(f, UptoIn(0, AreIn(f, d))) = {} BY <1>1, <1>3
<1>4. FunctionsUpto(f, 0) = <<>>
  <2>1. NamesAt(f, UptoIn(0, AreIn(f, "function"))) = {} BY <1>9
  <2> QED BY <2>1 DEF FunctionsUpto
<1>5. GlobalsIn(f, 0) = <<>>
  <2>1. NamesAt(f, UptoIn(0, AreIn(f, "variable"))) = {} BY <1>9
  <2> QED BY <2>1 DEF GlobalsIn
<1>6. EnumsIn(f, 0) = <<>>
  <2>1. NamesAt(f, UptoIn(0, AreIn(f, "enum"))) = {} BY <1>9
  <2> QED BY <2>1 DEF EnumsIn
<1>7. MembersIn(f, 0) = <<>> BY <1>2 DEF MembersIn
<1>8. FunctionsUpto(f, Len(f)) = FunctionsIn(f) BY UptoFacts DEF FunctionsUpto, FunctionsIn
<1> QED BY <1>4, <1>5, <1>6, <1>7, <1>8

-----------------------------------------------------------------------------
(***************************************************************************)
(* What links the passes to the tables of the list.                        *)
(***************************************************************************)

(* Only functions have more than an initialiser for a body.                *)
Shaped(d) ==
  /\ d.decl \in {"enum", "struct"} => d.body = <<>>
  /\ d.decl = "variable" => DOMAIN d.body \subseteq {1}

BodiesShaped == Shaped(current) /\ \A k \in DOMAIN file : Shaped(file[k])

IdsRight(k) == \A i \in 1..k : file[i].decl = "function" => ids[i] = IdIn(file, i)

NoteIn(f, i, j) ==
  [id    |-> CalleeIn(f, f[i].body[j]),
   types |-> TypesTranslated(TablesIn(f, i), f[i].body[j], WantedIn(f, i))]

Wrong == errorNumber > 0 /\ \E i \in DOMAIN file : ~RightIn(file, i)

(* k declarations, and of the next one j-1 statements, were visited        *)
(* without an error.                                                       *)
Agreed(k, j) ==
  /\ errorNumber = 0
  /\ functions = FunctionsIn(file) /\ globals = GlobalsIn(file, k)
  /\ enums = EnumsIn(file, k) /\ members = MembersIn(file, k)
  /\ \A i \in 1..k : RightIn(file, i)
  /\ \A i \in 1..k : file[i].decl = "function" =>
       \A l \in DOMAIN file[i].body : notes[<<i, l>>] = NoteIn(file, i, l)
  /\ \A l \in 1..j-1 : StatementRight(file, k+1, l) /\ notes[<<k+1, l>>] = NoteIn(file, k+1, l)
  /\ j # 0 => currentFunc = WantedIn(file, k+1)

PassesAgree ==
  /\ stage \in ParserStages => functionCounter = 0 /\ functions = <<>>
  /\ stage \in ParserStages \cup {"register"} =>
       errorNumber = 0 /\ globals = <<>> /\ enums = <<>> /\ members = <<>>
  /\ stage = "register" =>
       /\ functions = FunctionsUpto(file, next-1)
       /\ functionCounter = Cardinality(UptoIn(next-1, AreIn(file, "function")))
       /\ IdsRight(next-1)
  /\ stage = "analyse" =>
       /\ IdsRight(Len(file))
       /\ AheadIn(file) \/ Wrong \/ Agreed(next-1, statement)
  /\ stage \in {"globals", "translate"} =>
       /\ IdsRight(Len(file))
       /\ AheadIn(file) \/ Agreed(Len(file), 0)
  /\ stage = "globals" => next = 1

FunctionsEmitted ==
  /\ Len(prog.functions) = Cardinality(UptoIn(next-1, AreIn(file, "function")))
  /\ \A k \in UptoIn(next-1, AreIn(file, "function")) :
       prog.functions[IdIn(file, k) + 1] = EmissionIn(file, k)

OutputAgrees ==
  /\ stage \in ParserStages \cup {"register", "analyse"} => prog = NoOutput
  /\ stage \in {"globals", "translate"} =>
       /\ IsFiniteSet(Emitted) /\ Len(prog.globals) = Cardinality(Emitted)
       /\ \A g \in DOMAIN prog.globals :
            /\ prog.globals[g][1] \in DOMAIN globals
            /\ prog.globals[g] = <<prog.globals[g][1], globals[prog.globals[g][1]]>>
  /\ stage = "globals" => prog.functions = <<>>
  /\ stage = "translate" =>
       /\ Emitted = DOMAIN globals
       /\ \A k \in 1..next-1 : ~HasEnum(TypesOf(k))
       /\ AheadIn(file) \/ FunctionsEmitted

LinkInv == BodiesShaped /\ PassesAgree /\ OutputAgrees

-----------------------------------------------------------------------------
(***************************************************************************)
(* The parser.                                                             *)
(***************************************************************************)
LEMMA ParserKeepsBodies == ParserTyped /\ BodiesShaped /\ ParserNext => BodiesShaped'
<1> SUFFICES ASSUME ParserTyped, BodiesShaped, ParserNext PROVE BodiesShaped'
  OBVIOUS
<1>1. \A c, n, t : Shaped(Declaration(c, n, t)) BY DEF Declaration, Shaped
<1>2. Shaped(NoDeclaration) BY <1>1 DEF NoDeclaration
<1>3. file \in Seq(Declared) BY StageFacts
<1>4. ASSUME file' = file, Shaped(current') PROVE BodiesShaped'
  BY <1>4 DEF BodiesShaped
<1>5. ASSUME NEW d, Push(d), Shaped(d) PROVE BodiesShaped'
  <2>1. file' = Append(file, d) /\ current' = NoDeclaration BY <1>5 DEF Push
  <2>2. \A k \in DOMAIN file' : (k \in DOMAIN file /\ file'[k] = file[k]) \/ file'[k] = d
    BY <1>3, <2>1
  <2> QED BY <1>2, <1>5, <2>1, <2>2 DEF BodiesShaped
<1>6. ASSUME NEW c \in DeclarationKinds, current \in DeclarationsOf(c), NEW part, Add(part)
      PROVE  Shaped(current')
  BY <1>6 DEF Add, DeclarationsOf, BodiesShaped, Shaped
<1>7. ASSUME NEW n, BeginEnum(n) \/ BeginStruct(n) PROVE BodiesShaped'
  BY <1>1, <1>4, <1>7 DEF BeginEnum, BeginStruct, Open
<1>8. ASSUME NEW m, NEW value, EnumMember(m, value) PROVE BodiesShaped'
  BY <1>4, <1>6, <1>8, StageFacts DEF EnumMember, DeclarationKinds
<1>9. ASSUME NEW w, StructField(w) PROVE BodiesShaped'
  BY <1>4, <1>6, <1>9, StageFacts DEF StructField, DeclarationKinds
<1>10. ASSUME NEW w, NEW n, BeginFunction(w, n) PROVE BodiesShaped'
  BY <1>1, <1>4, <1>10 DEF BeginFunction, Open
<1>11. ASSUME NEW w, NEW n, FunctionParameter(w, n) PROVE BodiesShaped'
  BY <1>4, <1>6, <1>11, StageFacts DEF FunctionParameter, DeclarationKinds
<1>12. ASSUME NEW s, BeginBody \/ Sentence(s) PROVE BodiesShaped'
  <2>1. current \in DeclarationsOf("function") /\ file' = file
    BY <1>12, StageFacts DEF BeginBody, Sentence
  <2>2. current'.decl = "function" BY <1>12, <2>1 DEF BeginBody, Sentence, DeclarationsOf
  <2> QED BY <1>4, <2>1, <2>2 DEF Shaped
<1>13. CASE EnumValueNoNumber \/ RunOffEnd \/ Refuse \/ EndOfFile
  BY <1>13 DEF EnumValueNoNumber, RunOffEnd, Refuse, EndOfFile, parser, BodiesShaped
<1>14. CASE EndEnum \/ EndStruct \/ EndFunction \/ Prototype
  BY <1>5, <1>14 DEF EndEnum, EndStruct, EndFunction, Prototype, BodiesShaped
<1>15. ASSUME NEW w, NEW n, Global(w, n, <<>>) \/ \E e \in Initials : Global(w, n, <<Statement("init", e)>>)
       PROVE  BodiesShaped'
  <2>1. ASSUME NEW body, DOMAIN body \subseteq {1}, Global(w, n, body) PROVE BodiesShaped'
    <3>1. Shaped([Declaration("variable", n, typeTable[w]) EXCEPT !.body = body])
      BY <2>1 DEF Declaration, Shaped
    <3> QED BY <1>5, <2>1, <3>1 DEF Global
  <2>2. DOMAIN <<>> \subseteq {1} /\ \A e : DOMAIN <<Statement("init", e)>> \subseteq {1} OBVIOUS
  <2> QED BY <1>15, <2>1, <2>2
<1> QED BY <1>7, <1>8, <1>9, <1>10, <1>11, <1>12, <1>13, <1>14, <1>15 DEF ParserNext

LEMMA LinkInit == Init => LinkInv
<1> SUFFICES ASSUME Init PROVE LinkInv
  OBVIOUS
<1> USE DEF Init, ParserInit
<1>1. BodiesShaped BY FieldWordsFacts DEF BodiesShaped, Shaped
<1>2. PassesAgree BY DEF PassesAgree, ParserStages
<1>3. OutputAgrees BY DEF OutputAgrees, ParserStages
<1> QED BY <1>1, <1>2, <1>3 DEF LinkInv

LEMMA LinkParse == IInv /\ LinkInv /\ Parse => LinkInv'
<1> SUFFICES ASSUME IInv, LinkInv, Parse PROVE LinkInv'
  OBVIOUS
<1>1. BodiesShaped' BY ParserKeepsBodies DEF IInv, Typed, LinkInv, Parse
<1>2. stage \in ParserStages /\ stage' \in ParserStages \cup {"register", "ended"}
  BY ParserShape DEF Parse
<1>3. UNCHANGED <<functions, globals, enums, members, functionCounter, errorNumber, next, ids, prog>>
  BY DEF Parse, analyser, tables
<1>4. next = 1 BY <1>2 DEF IInv, Typed, PlaceTyped
<1>5. /\ functionCounter = 0 /\ functions = <<>> /\ errorNumber = 0 /\ globals = <<>>
      /\ enums = <<>> /\ members = <<>> /\ prog = NoOutput
  BY <1>2 DEF LinkInv, PassesAgree, OutputAgrees
<1>6. file' \in Seq(Declared) BY ParserKeepsTypes DEF IInv, Typed, Parse, ParserTyped
<1>7. /\ functions' = FunctionsUpto(file', next'-1)
      /\ functionCounter' = Cardinality(UptoIn(next'-1, AreIn(file', "function")))
      /\ IdsRight(next-1)'
  <2>1. next'-1 = 0 BY <1>3, <1>4
  <2>2. UptoIn(0, AreIn(file', "function")) = {} BY <1>6, UptoFacts
  <2>3. Cardinality({}) = 0 BY FS_EmptySet
  <2>4. FunctionsUpto(file', 0) = <<>> BY <1>6, TablesEmpty
  <2>5. functions' = FunctionsUpto(file', next'-1) BY <1>3, <1>5, <2>1, <2>4
  <2>6. functionCounter' = Cardinality(UptoIn(next'-1, AreIn(file', "function")))
    BY <1>3, <1>5, <2>1, <2>2, <2>3
  <2>7. IdsRight(next-1)' BY <2>1 DEF IdsRight
  <2> QED BY <2>5, <2>6, <2>7
<1>8. PassesAgree' BY <1>2, <1>3, <1>5, <1>7 DEF PassesAgree, ParserStages
<1>9. OutputAgrees' BY <1>2, <1>3, <1>5 DEF OutputAgrees, ParserStages
<1> QED BY <1>1, <1>8, <1>9 DEF LinkInv

-----------------------------------------------------------------------------
(***************************************************************************)
(* The first pass.                                                         *)
(***************************************************************************)

(* After the parser the file stays, and what is read off it.               *)
LEMMA FileStays ==
  ASSUME LinkInv, UNCHANGED parser
  PROVE  file' = file /\ BodiesShaped'
BY DEF LinkInv, BodiesShaped, parser

LEMMA LinkRegister == IInv /\ LinkInv /\ Register => LinkInv'
<1> SUFFICES ASSUME IInv, LinkInv, Register PROVE LinkInv'
  OBVIOUS
<1>1. /\ stage = "register" /\ stage' = "register" /\ next <= Len(file) /\ next' = next + 1
      /\ UNCHANGED <<parser, errorNumber, globals, enums, members, prog>>
      /\ Typed
  BY DEF Register, IInv
<1>2. file' = file /\ BodiesShaped' BY <1>1, FileStays
<1>3. /\ next \in DOMAIN file /\ next \in 1..Len(file) /\ file \in Seq(Declared) /\ next - 1 \in Nat
      /\ Len(file) \in Nat
  BY <1>1, NodeFacts DEF Typed, ParserTyped
<1>4. /\ functions = FunctionsUpto(file, next-1)
      /\ functionCounter = Cardinality(UptoIn(next-1, AreIn(file, "function")))
      /\ IdsRight(next-1)
      /\ errorNumber = 0 /\ globals = <<>> /\ enums = <<>> /\ members = <<>> /\ prog = NoOutput
  BY <1>1 DEF LinkInv, PassesAgree, OutputAgrees
<1>5. functionCounter = IdIn(file, next) BY <1>4 DEF IdIn
<1>6. functions' = FunctionsUpto(file, next)
  BY <1>3, <1>4, <1>5, FunctionsGrow DEF Register, node
<1>7. functionCounter' = Cardinality(UptoIn(next, AreIn(file, "function")))
  <2> DEFINE before == UptoIn(next-1, AreIn(file, "function"))
  <2>1. IsFiniteSet(before) /\ Cardinality(before) \in Nat BY <1>3, UptoFinite
  <2>2. UptoIn(next, AreIn(file, "function")) = IF node.decl = "function" THEN before \cup {next} ELSE before
    BY <1>3, UptoFacts DEF node
  <2>3. next \notin before BY <1>3, UptoFacts
  <2> HIDE DEF before
  <2>4. Cardinality(before \cup {next}) = Cardinality(before) + 1 BY <2>1, <2>3, FS_AddElement
  <2>5. functionCounter = Cardinality(before) BY <1>4 DEF before
  <2>6. functionCounter' = IF node.decl = "function" THEN functionCounter + 1 ELSE functionCounter
    BY DEF Register
  <2> QED BY <2>2, <2>4, <2>5, <2>6
<1>8. IdsRight(next-1)'
  <2>1. ids \in Seq(Nat) /\ Len(ids) = next - 1 BY <1>1 DEF Typed, OutputTyped, FunctionsKnown
  <2>2. ids' = Append(ids, IF node.decl = "function" THEN functionCounter ELSE 0)
    BY DEF Register
  <2>3. /\ \A i \in 1..next-1 : ids'[i] = ids[i]
        /\ ids'[next] = IF node.decl = "function" THEN functionCounter ELSE 0
    BY <1>3, <2>1, <2>2
  <2>4. ASSUME NEW i \in 1..next, file[i].decl = "function" PROVE ids'[i] = IdIn(file, i)
    <3>1. CASE i \in 1..next-1 BY <1>4, <2>3, <2>4, <3>1 DEF IdsRight
    <3>2. CASE i = next BY <1>5, <2>3, <2>4, <3>2 DEF node
    <3> QED BY <1>3, <3>1, <3>2
  <2>5. next' - 1 = next BY <1>1, <1>3
  <2> QED BY <1>2, <2>4, <2>5 DEF IdsRight
<1>9. next' - 1 = next BY <1>1, <1>3
<1>10. PassesAgree' BY <1>1, <1>2, <1>4, <1>6, <1>7, <1>8, <1>9 DEF PassesAgree, ParserStages
<1>11. OutputAgrees' BY <1>1, <1>4 DEF OutputAgrees, ParserStages
<1> QED BY <1>2, <1>10, <1>11 DEF LinkInv

LEMMA LinkSecondPass == IInv /\ LinkInv /\ NextPass("register", "analyse") => LinkInv'
<1> SUFFICES ASSUME IInv, LinkInv, NextPass("register", "analyse") PROVE LinkInv'
  OBVIOUS
<1>1. /\ stage = "register" /\ stage' = "analyse" /\ next > Len(file) /\ next' = 1
      /\ UNCHANGED <<parser, functions, globals, enums, members, errorNumber, ids, notes,
                     currentFunc, statement, prog>>
      /\ Typed
  BY DEF NextPass, IInv, analyser, tables
<1>2. file' = file /\ BodiesShaped' BY <1>1, FileStays
<1>3. file \in Seq(Declared) /\ next = Len(file) + 1 /\ Len(file) \in Nat /\ statement = 0
  BY <1>1 DEF Typed, ParserTyped, PlaceTyped
<1>4. next - 1 = Len(file) /\ next' - 1 = 0 /\ statement' = 0 BY <1>1, <1>3
<1>5. /\ functions = FunctionsUpto(file, Len(file)) /\ IdsRight(Len(file))
      /\ errorNumber = 0 /\ globals = <<>> /\ enums = <<>> /\ members = <<>> /\ prog = NoOutput
  BY <1>1, <1>4 DEF LinkInv, PassesAgree, OutputAgrees
<1>6. Agreed(next-1, statement)'
  <2>1. /\ functions' = FunctionsIn(file') /\ globals' = GlobalsIn(file', 0)
        /\ enums' = EnumsIn(file', 0) /\ members' = MembersIn(file', 0)
    BY <1>1, <1>2, <1>3, <1>5, TablesEmpty
  <2>2. errorNumber' = 0 BY <1>1, <1>5
  <2>3. 1..0 = {} /\ 1..0-1 = {} OBVIOUS
  <2> QED BY <1>4, <2>1, <2>2, <2>3 DEF Agreed
<1>7. IdsRight(Len(file))' BY <1>1, <1>2, <1>5 DEF IdsRight
<1>8. PassesAgree' BY <1>1, <1>6, <1>7 DEF PassesAgree, ParserStages
<1>9. OutputAgrees' BY <1>1, <1>5 DEF OutputAgrees, ParserStages
<1> QED BY <1>2, <1>8, <1>9 DEF LinkInv

-----------------------------------------------------------------------------
(***************************************************************************)
(* The second pass.                                                        *)
(***************************************************************************)
LEMMA LinkVisit ==
  ASSUME IInv, LinkInv, stage = "analyse", stage' = "analyse", UNCHANGED <<parser, ids, prog>>,
         AheadIn(file) \/ Wrong' \/ Agreed(next-1, statement)'
  PROVE  LinkInv'
<1>1. file' = file /\ BodiesShaped' BY FileStays
<1>2. IdsRight(Len(file))' BY <1>1 DEF LinkInv, PassesAgree, IdsRight
<1>3. PassesAgree' BY <1>1, <1>2 DEF PassesAgree, ParserStages
<1>4. OutputAgrees' BY DEF LinkInv, OutputAgrees, ParserStages
<1> QED BY <1>1, <1>3, <1>4 DEF LinkInv

(* An error stays counted.                                                 *)
LEMMA WrongStays ==
  ASSUME Wrong, file' = file, errorNumber \in Nat, NEW n \in Nat, errorNumber' = errorNumber + n
  PROVE  Wrong'
BY DEF Wrong

LEMMA EmplaceNothing ==
  ASSUME NEW table, table = [k \in DOMAIN table |-> table[k]],
         NEW keys, keys \subseteq DOMAIN table, NEW value
  PROVE  emplace(table, keys, value) = table
<1>1. keys \cup DOMAIN table = DOMAIN table OBVIOUS
<1> QED BY <1>1 DEF emplace

LEMMA TablesAreFunctions ==
  ASSUME NEW f, NEW i
  PROVE  /\ FunctionsIn(f) = [k \in DOMAIN FunctionsIn(f) |-> FunctionsIn(f)[k]]
         /\ EnumsIn(f, i) = [k \in DOMAIN EnumsIn(f, i) |-> EnumsIn(f, i)[k]]
         /\ MembersIn(f, i) = [k \in DOMAIN MembersIn(f, i) |-> MembersIn(f, i)[k]]
BY DEF FunctionsIn, EnumsIn, MembersIn

(* A statement is checked against the tables of the list: either it is     *)
(* wrong and an error is counted, or nothing but the note is written.      *)
LEMMA StatementChecked ==
  ASSUME Typed, next \in DOMAIN file, NEW j \in DOMAIN node.body, NEW env, NEW to,
         env = TablesIn(file, next), to = WantedIn(file, next),
         Analyse(env, node.body[j], to, <<next, j>>),
         errorNumber = 0, functions = FunctionsIn(file), enums = EnumsIn(file, next),
         members = MembersIn(file, next), ~AheadIn(file)
  PROVE  \/ errorNumber' > 0 /\ ~StatementRight(file, next, j)
         \/ /\ errorNumber' = 0 /\ StatementRight(file, next, j)
            /\ UNCHANGED <<functions, enums, members>>
            /\ notes'[<<next, j>>] = NoteIn(file, next, j)
            /\ \A p \in DOMAIN notes : p # <<next, j>> => notes'[p] = notes[p]
<1> DEFINE s == node.body[j]
           errors == StatementErrors(env, s, to)
<1>1. node \in Declared /\ s \in Statements
  <2>1. file \in Seq(Declared) BY DEF Typed, ParserTyped
  <2>2. node \in Declared BY <2>1, ElementOf DEF node
  <2>3. node.body \in Seq(Statements) BY <2>2, DeclaredFacts
  <2> QED BY <2>2, <2>3, ElementOf
<1>2. IsFiniteSet(errors) BY <1>1, ErrorsFinite
<1>3. errorNumber' = 0 + Cardinality(errors) BY DEF Analyse, Errors
<1>4. StatementRight(file, next, j) <=> errors = {} BY DEF StatementRight, node
<1>5. CASE errors # {}
  <2> HIDE DEF errors
  <2>1. Cardinality(errors) \in Nat /\ Cardinality(errors) # 0
    BY <1>2, <1>5, FS_CardinalityType, FS_EmptySet
  <2> QED BY <1>3, <1>4, <1>5, <2>1
<1>6. CASE errors = {}
  <2>1. errorNumber' = 0
    <3> HIDE DEF errors
    <3> QED BY <1>3, <1>6, FS_EmptySet
  <2>2. ~AheadAt(file, next, j) BY DEF AheadIn, node
  <2>3. env.functions = FunctionsIn(file) BY DEF TablesIn
  <2>4. s.value.node = "call" => s.value.name \in DOMAIN FunctionsIn(file)
    <3>1. ExpressionErrors(env, s.value) = {} BY <1>6 DEF StatementErrors
    <3> QED BY <2>3, <3>1 DEF ExpressionErrors
  <2>5. functions' = functions
    <3>1. FunctionsLookedUp(s) \subseteq DOMAIN functions BY <2>4 DEF FunctionsLookedUp
    <3>2. functions' = emplace(functions, FunctionsLookedUp(s), NoFunction)
      BY DEF Analyse, LookUp
    <3> QED BY <3>1, <3>2, EmplaceNothing, TablesAreFunctions
  <2>6. enums' = enums
    <3>1. EnumsLookedUp(env, s, to) \subseteq DOMAIN enums BY <2>2 DEF AheadAt, node
    <3>2. enums' = emplace(enums, EnumsLookedUp(env, s, to), Untyped.kind)
      BY DEF Analyse, LookUp
    <3> QED BY <3>1, <3>2, EmplaceNothing, TablesAreFunctions
  <2>7. members' = members
    <3>1. MembersLookedUp(env, s) \subseteq DOMAIN members BY <2>2 DEF AheadAt, node
    <3>2. members' = emplace(members, MembersLookedUp(env, s), NoMember)
      BY DEF Analyse, LookUp
    <3> QED BY <3>1, <3>2, EmplaceNothing, TablesAreFunctions
  <2> DEFINE note == [id    |-> IF s.value.node = "call" THEN function(env, s.value.name).id ELSE 0,
                      types |-> TypesTranslated(env, s, to)]
  <2>8. note = NoteIn(file, next, j)
    <3>1. (IF s.value.node = "call" THEN function(env, s.value.name).id ELSE 0) = CalleeIn(file, s)
      BY <2>3, <2>4 DEF function, CalleeIn
    <3> QED BY <3>1 DEF NoteIn, node
  <2>9. notes' = [p \in DOMAIN notes \cup {<<next, j>>} |-> IF p = <<next, j>> THEN note ELSE notes[p]]
    BY DEF Analyse
  <2> HIDE DEF note
  <2>10. /\ notes'[<<next, j>>] = note
         /\ \A p \in DOMAIN notes : p # <<next, j>> => notes'[p] = notes[p]
    BY <2>9
  <2> QED BY <1>4, <1>6, <2>1, <2>5, <2>6, <2>7, <2>8, <2>10
<1> QED BY <1>5, <1>6

(* Declarations without statements are right.                              *)
LEMMA EmptyRight ==
  ASSUME NEW f, NEW i, f[i].decl # "function", f[i].body = <<>>
  PROVE  RightIn(f, i)
BY DEF RightIn

(* The declaration has been visited without an error.                      *)
LEMMA VisitAgreed ==
  ASSUME Typed, stage = "analyse", next <= Len(file), Agreed(next-1, statement), file' = file,
         next' = next + 1, statement' = 0, errorNumber' = 0, functions' = functions,
         globals' = GlobalsIn(file, next), enums' = EnumsIn(file, next),
         members' = MembersIn(file, next), RightIn(file, next),
         \A p \in DOMAIN notes : p[1] # next => notes'[p] = notes[p],
         node.decl = "function" =>
           \A l \in DOMAIN node.body : notes'[<<next, l>>] = NoteIn(file, next, l)
  PROVE  Agreed(next-1, statement)'
<1>1. next \in 1..Len(file) /\ Len(file) \in Nat BY NodeFacts
<1>2. next' - 1 = next /\ statement' - 1 = -1 /\ 1..-1 = {} /\ \A i \in 1..next : i = next \/ i \in 1..next-1
  BY <1>1
<1>3. \A i \in 1..next : RightIn(file, i) BY <1>2 DEF Agreed
<1>4. ASSUME NEW i \in 1..next, file[i].decl = "function", NEW l \in DOMAIN file[i].body
      PROVE  notes'[<<i, l>>] = NoteIn(file, i, l)
  <2>1. CASE i = next BY <1>4, <2>1 DEF node
  <2>2. CASE i \in 1..next-1
    <3>1. <<i, l>> \in DOMAIN notes BY <1>4, <2>2 DEF Typed, NotesWritten
    <3>2. notes[<<i, l>>] = NoteIn(file, i, l) BY <1>4, <2>2 DEF Agreed
    <3>3. i # next BY <1>1, <2>2
    <3> QED BY <3>1, <3>2, <3>3
  <2> QED BY <1>2, <2>1, <2>2
<1>5. functions' = FunctionsIn(file) BY DEF Agreed
<1> QED BY <1>2, <1>3, <1>4, <1>5 DEF Agreed

(* What is given of the declaration that is visited.                       *)
LEMMA VisitFacts ==
  ASSUME IInv, LinkInv, stage = "analyse", next <= Len(file)
  PROVE  /\ Typed /\ next \in DOMAIN file /\ next \in 1..Len(file) /\ file \in Seq(Declared)
         /\ (next - 1) + 1 = next /\ errorNumber \in Nat /\ Shaped(node)
         /\ AheadIn(file) \/ Wrong \/ Agreed(next-1, statement)
         /\ node.body \in Seq(Statements) /\ node.decl \in DeclarationKinds
         /\ node.decl # "function" => statement = 0
<1>1. Typed BY DEF IInv
<1>2. /\ next \in DOMAIN file /\ next \in 1..Len(file) /\ file \in Seq(Declared)
      /\ node.body \in Seq(Statements) /\ node.decl \in DeclarationKinds
  BY <1>1, NodeFacts DEF Typed, ParserTyped
<1>3. Shaped(node) BY <1>2 DEF LinkInv, BodiesShaped, node
<1> QED BY <1>1, <1>2, <1>3, OutsideFunction DEF LinkInv, PassesAgree, Typed, OutputTyped

(* The number of errors only grows.                                        *)
LEMMA AnalyseCounts ==
  ASSUME errorNumber \in Nat, NEW env, NEW s \in Statements, NEW to, NEW place,
         Analyse(env, s, to, place)
  PROVE  \E n \in Nat : errorNumber' = errorNumber + n
<1>1. IsFiniteSet(StatementErrors(env, s, to)) BY ErrorsFinite
<1>2. Cardinality(StatementErrors(env, s, to)) \in Nat BY <1>1, FS_CardinalityType
<1> QED BY <1>2 DEF Analyse, Errors

LEMMA LinkAnalyseStruct == IInv /\ LinkInv /\ AnalyseStruct => LinkInv'
<1> SUFFICES ASSUME IInv, LinkInv, AnalyseStruct PROVE LinkInv'
  OBVIOUS
<1>1. /\ stage = "analyse" /\ stage' = "analyse" /\ next <= Len(file) /\ node.decl = "struct"
      /\ next' = next + 1
      /\ UNCHANGED <<parser, ids, prog, functions, globals, enums, members, errorNumber, statement,
                     notes>>
  BY DEF AnalyseStruct, Visit, Visited
<1>2. file' = file BY <1>1, FileStays
<1>3. /\ Typed /\ next \in DOMAIN file /\ file \in Seq(Declared) /\ errorNumber \in Nat
      /\ Shaped(node) /\ (AheadIn(file) \/ Wrong \/ Agreed(next-1, statement)) /\ statement = 0
  BY <1>1, VisitFacts
<1>4. ASSUME Agreed(next-1, statement) PROVE Agreed(next-1, statement)'
  <2>1. /\ GlobalsIn(file, next) = GlobalsIn(file, next-1)
        /\ EnumsIn(file, next) = EnumsIn(file, next-1)
        /\ MembersIn(file, next) = MembersIn(file, next-1)
    BY <1>1, <1>3, GlobalsGrow, EnumsGrow, MembersGrow DEF node
  <2>2. RightIn(file, next) BY <1>1, <1>3, EmptyRight DEF Shaped, node
  <2>3. /\ errorNumber' = 0 /\ globals' = GlobalsIn(file, next) /\ enums' = EnumsIn(file, next)
        /\ members' = MembersIn(file, next) /\ functions' = functions /\ statement' = 0
        /\ \A p \in DOMAIN notes : p[1] # next => notes'[p] = notes[p]
    BY <1>1, <1>3, <1>4, <2>1 DEF Agreed
  <2> QED BY <1>1, <1>2, <1>3, <1>4, <2>2, <2>3, VisitAgreed
<1>5. Wrong => Wrong' BY <1>1, <1>2 DEF Wrong
<1> QED BY <1>1, <1>3, <1>4, <1>5, LinkVisit

LEMMA LinkAnalyseEnum == IInv /\ LinkInv /\ AnalyseEnum => LinkInv'
<1> SUFFICES ASSUME IInv, LinkInv, AnalyseEnum PROVE LinkInv'
  OBVIOUS
<1>1. /\ stage = "analyse" /\ stage' = "analyse" /\ next <= Len(file) /\ node.decl = "enum"
      /\ next' = next + 1
      /\ UNCHANGED <<parser, ids, prog, functions, globals, errorNumber, statement, notes>>
      /\ enums' = emplace(enums, {node.name}, BackingKind(node))
      /\ members' = [key \in MemberKeys(node) \cup DOMAIN members |->
                       IF key \in DOMAIN members THEN members[key]
                       ELSE MemberInfo(FirstNamed(node.parts, key[2]).value, BackingKind(node))]
  BY DEF AnalyseEnum, Visit, Visited
<1>2. file' = file BY <1>1, FileStays
<1>3. /\ Typed /\ next \in DOMAIN file /\ file \in Seq(Declared) /\ errorNumber \in Nat
      /\ Shaped(node) /\ (AheadIn(file) \/ Wrong \/ Agreed(next-1, statement)) /\ statement = 0
  BY <1>1, VisitFacts
<1>4. ASSUME Agreed(next-1, statement) PROVE Agreed(next-1, statement)'
  <2>1. enums = EnumsIn(file, next-1) /\ members = MembersIn(file, next-1)
        /\ globals = GlobalsIn(file, next-1) /\ errorNumber = 0
    BY <1>4 DEF Agreed
  <2>2. GlobalsIn(file, next) = GlobalsIn(file, next-1)
    BY <1>1, <1>3, GlobalsGrow DEF node
  <2>3. enums' = EnumsIn(file, next)
    BY <1>1, <1>3, <2>1, EnumsGrow DEF node
  <2>4. members' = MembersIn(file, next)
    BY <1>1, <1>3, <2>1, MembersGrow DEF node
  <2>5. RightIn(file, next) BY <1>1, <1>3, EmptyRight DEF Shaped, node
  <2>6. /\ errorNumber' = 0 /\ globals' = GlobalsIn(file, next) /\ functions' = functions
        /\ statement' = 0 /\ \A p \in DOMAIN notes : p[1] # next => notes'[p] = notes[p]
    BY <1>1, <1>3, <2>1, <2>2
  <2> QED BY <1>1, <1>2, <1>3, <1>4, <2>3, <2>4, <2>5, <2>6, VisitAgreed
<1>5. Wrong => Wrong' BY <1>1, <1>2 DEF Wrong
<1> QED BY <1>1, <1>3, <1>4, <1>5, LinkVisit

LEMMA LinkAnalyseGlobal == IInv /\ LinkInv /\ AnalyseGlobal => LinkInv'
<1> SUFFICES ASSUME IInv, LinkInv, AnalyseGlobal PROVE LinkInv'
  OBVIOUS
<1>1. /\ stage = "analyse" /\ stage' = "analyse" /\ next <= Len(file) /\ node.decl = "variable"
      /\ next' = next + 1
      /\ UNCHANGED <<parser, ids, prog, statement>>
      /\ globals' = emplace(globals, {node.name}, node.type)
  BY DEF AnalyseGlobal, Visit, Visited
<1>2. file' = file BY <1>1, FileStays
<1>3. /\ Typed /\ next \in DOMAIN file /\ file \in Seq(Declared) /\ errorNumber \in Nat
      /\ Shaped(node) /\ (AheadIn(file) \/ Wrong \/ Agreed(next-1, statement)) /\ statement = 0
      /\ node.body \in Seq(Statements)
  BY <1>1, VisitFacts
<1>4. CASE node.body = <<>>
  <2>1. UNCHANGED <<functions, enums, members, notes, errorNumber>>
    BY <1>4 DEF AnalyseGlobal
  <2>2. ASSUME Agreed(next-1, statement) PROVE Agreed(next-1, statement)'
    <3>1. enums = EnumsIn(file, next-1) /\ members = MembersIn(file, next-1)
          /\ globals = GlobalsIn(file, next-1) /\ errorNumber = 0
      BY <2>2 DEF Agreed
    <3>2. globals' = GlobalsIn(file, next)
      BY <1>1, <1>3, <3>1, GlobalsGrow DEF node
    <3>3. enums' = EnumsIn(file, next) /\ members' = MembersIn(file, next)
      BY <1>1, <1>3, <2>1, <3>1, EnumsGrow, MembersGrow DEF node
    <3>4. RightIn(file, next) BY <1>1, <1>4, EmptyRight DEF node
    <3>5. /\ errorNumber' = 0 /\ functions' = functions
          /\ statement' = 0 /\ \A p \in DOMAIN notes : p[1] # next => notes'[p] = notes[p]
      BY <1>1, <1>3, <2>1, <3>1
    <3> QED BY <1>1, <1>2, <1>3, <2>2, <3>2, <3>3, <3>4, <3>5, VisitAgreed
  <2>3. Wrong => Wrong' BY <1>2, <2>1 DEF Wrong
  <2> QED BY <1>1, <1>3, <2>2, <2>3, LinkVisit
<1>5. CASE node.body # <<>>
  <2>1. Analyse(Tables(globals', <<>>, FALSE), node.body[1], node.type, <<next, 1>>)
    BY <1>5 DEF AnalyseGlobal
  <2>2. DOMAIN node.body = {1} /\ 1 \in DOMAIN node.body /\ node.body[1] \in Statements
    <3>1. DOMAIN node.body \subseteq {1} BY <1>1, <1>3 DEF Shaped
    <3>2. 1 \in DOMAIN node.body BY <1>3, <1>5
    <3>3. node.body[1] \in Statements BY <1>3, <3>2, ElementOf
    <3> QED BY <3>1, <3>2, <3>3
  <2>3. Wrong => Wrong'
    <3>1. PICK n \in Nat : errorNumber' = errorNumber + n
      BY <1>3, <2>1, <2>2, AnalyseCounts
    <3> QED BY <1>2, <1>3, <3>1, WrongStays
  <2>4. ASSUME Agreed(next-1, statement), ~AheadIn(file) PROVE Wrong' \/ Agreed(next-1, statement)'
    <3>1. enums = EnumsIn(file, next-1) /\ members = MembersIn(file, next-1)
          /\ globals = GlobalsIn(file, next-1) /\ errorNumber = 0 /\ functions = FunctionsIn(file)
      BY <2>4 DEF Agreed
    <3>2. globals' = GlobalsIn(file, next)
      BY <1>1, <1>3, <3>1, GlobalsGrow DEF node
    <3>3. enums = EnumsIn(file, next) /\ members = MembersIn(file, next)
      BY <1>1, <1>3, <3>1, EnumsGrow, MembersGrow DEF node
    <3>4. Tables(globals', <<>>, FALSE) = TablesIn(file, next)
      BY <1>1, <3>1, <3>2, <3>3 DEF Tables, TablesIn, node
    <3>5. node.type = WantedIn(file, next) BY <1>1 DEF WantedIn, node
    <3>6. CASE errorNumber' > 0 /\ ~StatementRight(file, next, 1)
      <4>1. ~RightIn(file, next) BY <2>2, <3>6 DEF RightIn, node
      <4> QED BY <1>2, <1>3, <3>6, <4>1 DEF Wrong
    <3>7. CASE /\ errorNumber' = 0 /\ StatementRight(file, next, 1)
               /\ UNCHANGED <<functions, enums, members>>
               /\ \A p \in DOMAIN notes : p # <<next, 1>> => notes'[p] = notes[p]
      <4>1. RightIn(file, next) BY <1>1, <2>2, <3>7 DEF RightIn, node
      <4>2. \A p \in DOMAIN notes : p[1] # next => notes'[p] = notes[p] BY <3>7
      <4>3. enums' = EnumsIn(file, next) /\ members' = MembersIn(file, next) BY <3>3, <3>7
      <4> QED BY <1>1, <1>2, <1>3, <2>4, <3>2, <3>7, <4>1, <4>2, <4>3, VisitAgreed
    <3> QED BY <1>3, <2>1, <2>2, <2>4, <3>1, <3>3, <3>4, <3>5, <3>6, <3>7, StatementChecked
  <2> QED BY <1>1, <1>3, <2>3, <2>4, LinkVisit
<1> QED BY <1>4, <1>5

LEMMA LinkEnterFunction == IInv /\ LinkInv /\ EnterFunction => LinkInv'
<1> SUFFICES ASSUME IInv, LinkInv, EnterFunction PROVE LinkInv'
  OBVIOUS
<1>1. /\ stage = "analyse" /\ stage' = "analyse" /\ next <= Len(file) /\ node.decl = "function"
      /\ statement = 0 /\ statement' = 1 /\ currentFunc' = functions[node.name].retType
      /\ UNCHANGED <<parser, ids, prog, functions, globals, enums, members, errorNumber, next, notes>>
  BY DEF EnterFunction, Visit
<1>2. file' = file BY <1>1, FileStays
<1>3. (next - 1) + 1 = next /\ (AheadIn(file) \/ Wrong \/ Agreed(next-1, statement))
  BY <1>1, VisitFacts
<1>4. ASSUME Agreed(next-1, statement) PROVE Agreed(next-1, statement)'
  <2>1. currentFunc' = WantedIn(file, next)
    BY <1>1, <1>4 DEF Agreed, WantedIn, node
  <2>2. 1..1-1 = {} OBVIOUS
  <2> QED BY <1>1, <1>2, <1>3, <1>4, <2>1, <2>2 DEF Agreed
<1>5. Wrong => Wrong' BY <1>1, <1>2 DEF Wrong
<1> QED BY <1>1, <1>3, <1>4, <1>5, LinkVisit

LEMMA LinkAnalyseStatement == IInv /\ LinkInv /\ AnalyseStatement => LinkInv'
<1> SUFFICES ASSUME IInv, LinkInv, AnalyseStatement PROVE LinkInv'
  OBVIOUS
<1>1. /\ stage = "analyse" /\ stage' = "analyse" /\ next <= Len(file) /\ node.decl = "function"
      /\ statement \in DOMAIN node.body /\ statement' = statement + 1
      /\ UNCHANGED <<parser, ids, prog, globals, currentFunc, next>>
      /\ Analyse(Tables(globals, Bound(node), TRUE), node.body[statement], currentFunc,
                 <<next, statement>>)
  BY DEF AnalyseStatement, Visit
<1>2. file' = file BY <1>1, FileStays
<1>3. /\ Typed /\ next \in DOMAIN file /\ next \in 1..Len(file) /\ file \in Seq(Declared)
      /\ errorNumber \in Nat /\ (next - 1) + 1 = next
      /\ (AheadIn(file) \/ Wrong \/ Agreed(next-1, statement))
      /\ node.body \in Seq(Statements)
  BY <1>1, VisitFacts
<1>4. statement \in Nat /\ statement # 0 /\ node.body[statement] \in Statements
  BY <1>1, <1>3, ElementOf
<1>5. Wrong => Wrong'
  <2>1. PICK n \in Nat : errorNumber' = errorNumber + n BY <1>1, <1>3, <1>4, AnalyseCounts
  <2> QED BY <1>2, <1>3, <2>1, WrongStays
<1>6. ASSUME Agreed(next-1, statement), ~AheadIn(file) PROVE Wrong' \/ Agreed(next-1, statement)'
  <2>1. /\ errorNumber = 0 /\ functions = FunctionsIn(file) /\ globals = GlobalsIn(file, next-1)
        /\ enums = EnumsIn(file, next-1) /\ members = MembersIn(file, next-1)
        /\ currentFunc = WantedIn(file, next)
    BY <1>3, <1>4, <1>6 DEF Agreed
  <2>2. /\ GlobalsIn(file, next) = GlobalsIn(file, next-1)
        /\ EnumsIn(file, next) = EnumsIn(file, next-1)
        /\ MembersIn(file, next) = MembersIn(file, next-1)
    BY <1>1, <1>3, GlobalsGrow, EnumsGrow, MembersGrow DEF node
  <2>3. Tables(globals, Bound(node), TRUE) = TablesIn(file, next)
    BY <1>1, <2>1, <2>2 DEF Tables, TablesIn, node
  <2>4. CASE errorNumber' > 0 /\ ~StatementRight(file, next, statement)
    <3>1. ~RightIn(file, next) BY <1>1, <2>4 DEF RightIn, node
    <3> QED BY <1>2, <1>3, <2>4, <3>1 DEF Wrong
  <2>5. CASE /\ errorNumber' = 0 /\ StatementRight(file, next, statement)
             /\ UNCHANGED <<functions, enums, members>>
             /\ notes'[<<next, statement>>] = NoteIn(file, next, statement)
             /\ \A p \in DOMAIN notes : p # <<next, statement>> => notes'[p] = notes[p]
    <3>1. ASSUME NEW i \in 1..next-1, file[i].decl = "function", NEW l \in DOMAIN file[i].body
          PROVE  notes'[<<i, l>>] = NoteIn(file, i, l)
      <4>1. <<i, l>> \in DOMAIN notes BY <1>1, <1>3, <3>1 DEF Typed, NotesWritten
      <4>2. notes[<<i, l>>] = NoteIn(file, i, l) BY <1>6, <3>1 DEF Agreed
      <4>3. i # next BY <1>3
      <4> QED BY <2>5, <4>1, <4>2, <4>3
    <3>2. ASSUME NEW l \in 1..statement
          PROVE  StatementRight(file, next, l) /\ notes'[<<next, l>>] = NoteIn(file, next, l)
      <4>1. CASE l = statement BY <2>5, <4>1
      <4>2. CASE l \in 1..statement-1
        <5>1. <<next, l>> \in DOMAIN notes BY <1>1, <1>3, <4>2 DEF Typed, NotesWritten
        <5>2. StatementRight(file, next, l) /\ notes[<<next, l>>] = NoteIn(file, next, l)
          BY <1>3, <1>6, <4>2 DEF Agreed
        <5>3. l # statement BY <1>4, <4>2
        <5> QED BY <2>5, <5>1, <5>2, <5>3
      <4> QED BY <1>4, <4>1, <4>2
    <3>3. (statement + 1) - 1 = statement BY <1>4
    <3>4. \A i \in 1..next-1 : RightIn(file, i) BY <1>6 DEF Agreed
    <3> QED BY <1>1, <1>2, <1>3, <2>1, <2>5, <3>1, <3>2, <3>3, <3>4 DEF Agreed
  <2> QED BY <1>1, <1>3, <1>6, <2>1, <2>2, <2>3, <2>4, <2>5, StatementChecked
<1> QED BY <1>1, <1>3, <1>5, <1>6, LinkVisit

LEMMA LinkLeaveFunction == IInv /\ LinkInv /\ LeaveFunction => LinkInv'
<1> SUFFICES ASSUME IInv, LinkInv, LeaveFunction PROVE LinkInv'
  OBVIOUS
<1> DEFINE Lacking == node.type.kind # "VOID" /\ ~hasReturn(node.body)
           messages == IF Lacking THEN {"no return"} ELSE {}
<1>1. /\ stage = "analyse" /\ stage' = "analyse" /\ next <= Len(file) /\ node.decl = "function"
      /\ statement = Len(node.body) + 1 /\ statement' = 0 /\ next' = next + 1
      /\ errorNumber' = errorNumber + Cardinality(messages)
      /\ UNCHANGED <<parser, ids, prog, functions, globals, enums, members, notes>>
  BY DEF LeaveFunction, Visit, Visited, Errors, tables
<1>2. file' = file BY <1>1, FileStays
<1>3. /\ Typed /\ next \in DOMAIN file /\ next \in 1..Len(file) /\ file \in Seq(Declared)
      /\ errorNumber \in Nat /\ (next - 1) + 1 = next
      /\ (AheadIn(file) \/ Wrong \/ Agreed(next-1, statement))
      /\ node.body \in Seq(Statements)
  BY <1>1, VisitFacts
<1>4. IF Lacking THEN Cardinality(messages) = 1 ELSE Cardinality(messages) = 0
  <2>1. CASE Lacking
    <3>1. messages = {"no return"} BY <2>1
    <3> HIDE DEF messages
    <3>2. Cardinality({"no return"}) = 1 BY FS_Singleton
    <3>3. Cardinality(messages) = 1 BY <3>1, <3>2, Zenon
    <3> QED BY <2>1, <3>3
  <2>2. CASE ~Lacking
    <3>1. messages = {} BY <2>2
    <3> HIDE DEF messages
    <3>2. Cardinality(messages) = 0 BY <3>1, FS_EmptySet, Zenon
    <3> QED BY <2>2, <3>2
  <2> QED BY <2>1, <2>2
<1>5. Lacking => ~RightIn(file, next) BY <1>1 DEF RightIn, node
<1> HIDE DEF messages, Lacking
<1>6. Wrong => Wrong' BY <1>1, <1>2, <1>3, <1>4, WrongStays
<1>7. ASSUME Agreed(next-1, statement) PROVE Wrong' \/ Agreed(next-1, statement)'
  <2>1. /\ errorNumber = 0 /\ globals = GlobalsIn(file, next-1)
        /\ enums = EnumsIn(file, next-1) /\ members = MembersIn(file, next-1)
    BY <1>7 DEF Agreed
  <2>2. CASE Lacking
    <3>1. errorNumber' > 0 BY <1>1, <1>4, <2>1, <2>2
    <3> QED BY <1>2, <1>3, <1>5, <2>2, <3>1 DEF Wrong
  <2>3. CASE ~Lacking
    <3>1. errorNumber' = 0 BY <1>1, <1>4, <2>1, <2>3
    <3>2. globals' = GlobalsIn(file, next) /\ enums' = EnumsIn(file, next)
          /\ members' = MembersIn(file, next)
      BY <1>1, <1>3, <2>1, GlobalsGrow, EnumsGrow, MembersGrow DEF node
    <3>3. ASSUME NEW l \in DOMAIN node.body
          PROVE  StatementRight(file, next, l) /\ notes[<<next, l>>] = NoteIn(file, next, l)
      <4>1. l \in 1..statement-1 BY <1>1, <1>3
      <4> QED BY <1>3, <1>7, <4>1 DEF Agreed
    <3>4. RightIn(file, next) BY <2>3, <3>3 DEF RightIn, Lacking, node
    <3> QED BY <1>1, <1>2, <1>3, <1>7, <3>1, <3>2, <3>3, <3>4, VisitAgreed
  <2> QED BY <2>2, <2>3
<1> QED BY <1>1, <1>3, <1>6, <1>7, LinkVisit

-----------------------------------------------------------------------------
(***************************************************************************)
(* The translator.                                                         *)
(***************************************************************************)
LEMMA LinkGoOn == IInv /\ LinkInv /\ GoOn => LinkInv'
<1> SUFFICES ASSUME IInv, LinkInv, GoOn PROVE LinkInv'
  OBVIOUS
<1>1. /\ stage = "analyse" /\ stage' = "globals" /\ next > Len(file) /\ next' = 1
      /\ errorNumber = 0
      /\ UNCHANGED <<parser, functions, globals, enums, members, errorNumber, ids, notes,
                     currentFunc, statement, prog>>
      /\ Typed
  BY DEF GoOn, NextPass, IInv, analyser, tables
<1>2. file' = file /\ BodiesShaped' BY <1>1, FileStays
<1>3. next = Len(file) + 1 /\ Len(file) \in Nat /\ statement = 0
  BY <1>1 DEF Typed, ParserTyped, PlaceTyped
<1>4. next - 1 = Len(file) BY <1>3
<1>5. IdsRight(Len(file)) /\ (AheadIn(file) \/ Agreed(Len(file), 0))
  BY <1>1, <1>3, <1>4 DEF LinkInv, PassesAgree, Wrong
<1>6. Agreed(Len(file), 0) => Agreed(Len(file), 0)' BY <1>1, <1>2 DEF Agreed
<1>7. IdsRight(Len(file))' BY <1>1, <1>2, <1>5 DEF IdsRight
<1>8. PassesAgree' BY <1>1, <1>2, <1>5, <1>6, <1>7 DEF PassesAgree, ParserStages
<1>9. prog' = NoOutput BY <1>1 DEF LinkInv, OutputAgrees
<1>10. OutputAgrees'
  <2>1. Emitted' = {} BY <1>9 DEF Emitted, NoOutput
  <2>2. IsFiniteSet({}) /\ Cardinality({}) = 0 BY FS_EmptySet
  <2>3. prog'.globals = <<>> /\ prog'.functions = <<>> BY <1>9 DEF NoOutput
  <2> QED BY <1>1, <2>1, <2>2, <2>3 DEF OutputAgrees, ParserStages
<1> QED BY <1>2, <1>8, <1>10 DEF LinkInv

(* The translator changes no table.                                        *)
LEMMA LinkTranslating ==
  ASSUME LinkInv, stage \in {"globals", "translate"}, stage' \in {"globals", "translate"},
         UNCHANGED <<parser, analyser, statement>>, stage' = "globals" => next' = 1,
         OutputAgrees'
  PROVE  LinkInv'
<1>1. UNCHANGED <<functions, globals, enums, members, errorNumber, ids, notes, currentFunc>>
  BY DEF analyser, tables
<1>2. file' = file /\ BodiesShaped' BY FileStays
<1>3. IdsRight(Len(file)) /\ (AheadIn(file) \/ Agreed(Len(file), 0))
  BY DEF LinkInv, PassesAgree
<1>4. Agreed(Len(file), 0) => Agreed(Len(file), 0)' BY <1>1, <1>2 DEF Agreed
<1>5. IdsRight(Len(file))' BY <1>1, <1>2, <1>3 DEF IdsRight
<1>6. PassesAgree' BY <1>2, <1>3, <1>4, <1>5 DEF PassesAgree, ParserStages
<1> QED BY <1>2, <1>6 DEF LinkInv

LEMMA LinkEmitGlobal == ASSUME IInv, LinkInv, NEW n \in Names, EmitGlobal(n) PROVE LinkInv'
<1>1. /\ stage = "globals" /\ stage' = "globals" /\ n \in DOMAIN globals /\ n \notin Emitted
      /\ UNCHANGED <<parser, analyser, statement, next, globals>>
      /\ prog' = [prog EXCEPT !.globals = Append(@, <<n, globals[n]>>)]
      /\ OutputTyped
  BY DEF EmitGlobal, IInv, Typed, analyser, tables
<1>2. /\ next = 1 /\ prog.functions = <<>> /\ IsFiniteSet(Emitted)
      /\ Len(prog.globals) = Cardinality(Emitted)
      /\ \A g \in DOMAIN prog.globals :
            /\ prog.globals[g][1] \in DOMAIN globals
            /\ prog.globals[g] = <<prog.globals[g][1], globals[prog.globals[g][1]]>>
  BY <1>1 DEF LinkInv, PassesAgree, OutputAgrees
<1>3. /\ prog.globals \in Seq(Names \X Proper)
      /\ prog'.globals = Append(prog.globals, <<n, globals[n]>>) /\ prog'.functions = prog.functions
  BY <1>1 DEF OutputTyped
<1>4. /\ DOMAIN prog'.globals = DOMAIN prog.globals \cup {Len(prog.globals) + 1}
      /\ \A g \in DOMAIN prog.globals : prog'.globals[g] = prog.globals[g]
      /\ prog'.globals[Len(prog.globals) + 1] = <<n, globals[n]>>
      /\ Len(prog'.globals) = Len(prog.globals) + 1
  <2>1. <<n, globals[n]>> \in {<<n, globals[n]>>} \cup (Names \X Proper) OBVIOUS
  <2>2. prog.globals \in Seq({<<n, globals[n]>>} \cup (Names \X Proper)) BY <1>3
  <2> QED BY <1>3, <2>1, <2>2
<1>5. Emitted' = Emitted \cup {n} BY <1>4 DEF Emitted
<1>6. IsFiniteSet(Emitted') /\ Cardinality(Emitted') = Cardinality(Emitted) + 1
  BY <1>1, <1>2, <1>5, FS_AddElement
<1>7. OutputAgrees'
  <2>1. Len(prog'.globals) = Cardinality(Emitted') BY <1>2, <1>4, <1>6
  <2>2. ASSUME NEW g \in DOMAIN prog'.globals
        PROVE  /\ prog'.globals[g][1] \in DOMAIN globals
               /\ prog'.globals[g] = <<prog'.globals[g][1], globals[prog'.globals[g][1]]>>
    BY <1>1, <1>2, <1>4
  <2> QED BY <1>1, <1>2, <1>3, <1>6, <2>1, <2>2 DEF OutputAgrees, ParserStages
<1> QED BY <1>1, <1>2, <1>7, LinkTranslating

LEMMA LinkAllEmitted == IInv /\ LinkInv /\ AllEmitted => LinkInv'
<1> SUFFICES ASSUME IInv, LinkInv, AllEmitted PROVE LinkInv'
  OBVIOUS
<1>1. /\ stage = "globals" /\ stage' = "translate" /\ DOMAIN globals = Emitted
      /\ UNCHANGED <<parser, analyser, statement, next, prog, globals>>
      /\ file \in Seq(Declared)
  BY DEF AllEmitted, IInv, Typed, ParserTyped, analyser, tables
<1>2. file' = file BY <1>1, FileStays
<1>3. next = 1 /\ prog.functions = <<>> BY <1>1 DEF LinkInv, PassesAgree, OutputAgrees
<1>4. next' - 1 = 0 /\ 1..next'-1 = {} BY <1>1, <1>3
<1>5. FunctionsEmitted'
  <2>1. UptoIn(0, AreIn(file, "function")) = {} BY <1>1, UptoFacts
  <2>2. Cardinality({}) = 0 BY FS_EmptySet
  <2>3. Len(prog'.functions) = 0 BY <1>1, <1>3
  <2> QED BY <1>2, <1>4, <2>1, <2>2, <2>3 DEF FunctionsEmitted
<1>6. Emitted' = DOMAIN globals' BY <1>1 DEF Emitted
<1>7. /\ IsFiniteSet(Emitted') /\ Len(prog'.globals) = Cardinality(Emitted')
      /\ \A g \in DOMAIN prog'.globals :
           /\ prog'.globals[g][1] \in DOMAIN globals'
           /\ prog'.globals[g] = <<prog'.globals[g][1], globals'[prog'.globals[g][1]]>>
  BY <1>1 DEF LinkInv, OutputAgrees, Emitted
<1>8. OutputAgrees' BY <1>1, <1>4, <1>5, <1>6, <1>7 DEF OutputAgrees, ParserStages
<1> QED BY <1>1, <1>8, LinkTranslating

(* A function's number is below those of later ones, and the length of     *)
(* what has been emitted.                                                  *)
LEMMA IdBelow ==
  ASSUME NEW S, NEW f \in Seq(S), NEW i \in Nat, NEW k \in UptoIn(i, AreIn(f, "function"))
  PROVE  /\ IdIn(f, k) \in Nat /\ IdIn(f, k) < Cardinality(UptoIn(i, AreIn(f, "function")))
<1> DEFINE low == UptoIn(k-1, AreIn(f, "function"))
           all == UptoIn(i, AreIn(f, "function"))
<1>1. k \in DOMAIN f /\ k \in Nat /\ k - 1 \in Nat /\ k <= i BY DEF UptoIn, AreIn
<1>2. k \notin low /\ k \in all /\ low \subseteq all
  <2>1. \A m \in AreIn(f, "function") : m \in Nat BY DEF AreIn
  <2> QED BY <1>1, <2>1 DEF UptoIn
<1>3. IsFiniteSet(all) /\ Cardinality(all) \in Nat /\ Cardinality(low) \in Nat
  BY <1>1, UptoFinite
<1>4. IdIn(f, k) = Cardinality(low) BY DEF IdIn
<1> HIDE DEF low, all
<1>5. Cardinality(low) <= Cardinality(all) /\ (Cardinality(low) = Cardinality(all) => low = all)
  BY <1>2, <1>3, FS_Subset
<1>6. Cardinality(low) < Cardinality(all) BY <1>2, <1>3, <1>5
<1> QED BY <1>3, <1>4, <1>6 DEF all

LEMMA SameTypesOf ==
  ASSUME file' = file, notes' = notes
  PROVE  \A k : HasEnum(TypesOf(k))' <=> HasEnum(TypesOf(k))
BY DEF HasEnum, TypesOf

LEMMA LinkSkipNode == IInv /\ LinkInv /\ SkipNode => LinkInv'
<1> SUFFICES ASSUME IInv, LinkInv, SkipNode PROVE LinkInv'
  OBVIOUS
<1>1. /\ stage = "translate" /\ stage' = "translate" /\ next <= Len(file) /\ next' = next + 1
      /\ node.decl # "function" /\ ~HasEnum(TypesOf(next))
      /\ UNCHANGED <<parser, analyser, statement, prog, globals, notes>>
      /\ Typed
  BY DEF SkipNode, IInv, analyser, tables
<1>2. file' = file BY <1>1, FileStays
<1>3. next \in 1..Len(file) /\ next \in DOMAIN file /\ file \in Seq(Declared) /\ Len(file) \in Nat
  BY <1>1, NodeFacts DEF Typed, ParserTyped
<1>4. next' - 1 = next /\ \A k \in 1..next : k = next \/ k \in 1..next-1 BY <1>1, <1>3
<1>5. UptoIn(next, AreIn(file, "function")) = UptoIn(next-1, AreIn(file, "function"))
  BY <1>1, <1>3, UptoFacts DEF node
<1>6. FunctionsEmitted => FunctionsEmitted' BY <1>1, <1>2, <1>4, <1>5 DEF FunctionsEmitted
<1>7. \A k \in 1..next'-1 : ~HasEnum(TypesOf(k))'
  <2>1. \A k \in 1..next-1 : ~HasEnum(TypesOf(k)) BY <1>1 DEF LinkInv, OutputAgrees
  <2> QED BY <1>1, <1>2, <1>4, <2>1, SameTypesOf
<1>8. OutputAgrees'
  BY <1>1, <1>2, <1>6, <1>7 DEF LinkInv, OutputAgrees, Emitted, ParserStages
<1> QED BY <1>1, <1>8, LinkTranslating

LEMMA LinkTranslateFunction == IInv /\ LinkInv /\ TranslateFunction => LinkInv'
<1> SUFFICES ASSUME IInv, LinkInv, TranslateFunction PROVE LinkInv'
  OBVIOUS
<1> DEFINE code == [j \in DOMAIN node.body |->
                      Instruction(members, node.body[j], notes[<<next, j>>].id)]
           emission == [id |-> ids[next], retType |-> node.type, code |-> code]
           before == UptoIn(next-1, AreIn(file, "function"))
<1>1. /\ stage = "translate" /\ stage' = "translate" /\ next <= Len(file) /\ next' = next + 1
      /\ node.decl = "function" /\ ~HasEnum(TypesOf(next))
      /\ UNCHANGED <<parser, analyser, statement, globals, notes>>
      /\ prog' = [prog EXCEPT !.functions = Append(@, emission)]
      /\ Typed
  BY DEF TranslateFunction, IInv, analyser, tables
<1>2. file' = file BY <1>1, FileStays
<1>3. /\ next \in 1..Len(file) /\ next \in DOMAIN file /\ file \in Seq(Declared)
      /\ Len(file) \in Nat /\ next - 1 \in Nat
  BY <1>1, NodeFacts DEF Typed, ParserTyped
<1>4. next' - 1 = next /\ \A k \in 1..next : k = next \/ k \in 1..next-1 BY <1>1, <1>3
<1>5. /\ prog.functions \in Seq(ProperEmissions)
      /\ prog'.functions = Append(prog.functions, emission) /\ prog'.globals = prog.globals
  BY <1>1 DEF Typed, OutputTyped
<1>6. Agreed(Len(file), 0) => emission = EmissionIn(file, next)
  <2> SUFFICES ASSUME Agreed(Len(file), 0) PROVE emission = EmissionIn(file, next)
    OBVIOUS
  <2>1. members = MembersIn(file, Len(file)) BY DEF Agreed
  <2>2. \A j \in DOMAIN node.body : notes[<<next, j>>] = NoteIn(file, next, j)
    BY <1>1, <1>3 DEF Agreed, node
  <2>3. \A j \in DOMAIN node.body : notes[<<next, j>>].id = CalleeIn(file, node.body[j])
    <3>1. \A j : NoteIn(file, next, j).id = CalleeIn(file, node.body[j]) BY DEF NoteIn, node
    <3> QED BY <2>2, <3>1
  <2>4. ids[next] = IdIn(file, next) BY <1>1, <1>3 DEF LinkInv, PassesAgree, IdsRight, node
  <2>5. code = [j \in DOMAIN node.body |-> Instruction(MembersIn(file, Len(file)), node.body[j],
                                                       CalleeIn(file, node.body[j]))]
    BY <2>1, <2>3
  <2> QED BY <2>4, <2>5 DEF EmissionIn, node
<1> HIDE DEF emission
<1>7. ASSUME FunctionsEmitted, Agreed(Len(file), 0) PROVE FunctionsEmitted'
  <2>1. /\ Len(prog.functions) = Cardinality(before) /\ IdIn(file, next) = Cardinality(before)
        /\ \A k \in before : prog.functions[IdIn(file, k) + 1] = EmissionIn(file, k)
    BY <1>7 DEF FunctionsEmitted, IdIn
  <2>2. UptoIn(next, AreIn(file, "function")) = before \cup {next} /\ next \notin before
    BY <1>1, <1>3, UptoFacts DEF node
  <2>3. IsFiniteSet(before) /\ Cardinality(before) \in Nat BY <1>3, UptoFinite
  <2>4. \A k \in before : IdIn(file, k) \in Nat /\ IdIn(file, k) < Cardinality(before)
    BY <1>3, IdBelow
  <2> HIDE DEF before
  <2>5. Cardinality(before \cup {next}) = Cardinality(before) + 1 BY <2>2, <2>3, FS_AddElement
  <2>6. /\ Len(prog'.functions) = Len(prog.functions) + 1
        /\ prog'.functions[Len(prog.functions) + 1] = emission
        /\ \A i \in 1..Len(prog.functions) : prog'.functions[i] = prog.functions[i]
    <3>1. prog.functions \in Seq({emission} \cup ProperEmissions) BY <1>5
    <3> QED BY <1>5, <3>1
  <2>7. ASSUME NEW k \in before \cup {next}
        PROVE  prog'.functions[IdIn(file, k) + 1] = EmissionIn(file, k)
    <3>1. CASE k = next BY <1>6, <1>7, <2>1, <2>6, <3>1
    <3>2. CASE k \in before
      <4>1. IdIn(file, k) + 1 \in 1..Len(prog.functions) BY <2>1, <2>3, <2>4, <3>2
      <4> QED BY <2>1, <2>6, <3>2, <4>1
    <3> QED BY <3>1, <3>2
  <2> QED BY <1>2, <1>4, <2>1, <2>2, <2>5, <2>6, <2>7 DEF FunctionsEmitted
<1>8. AheadIn(file) \/ FunctionsEmitted'
  <2>1. AheadIn(file) \/ (FunctionsEmitted /\ Agreed(Len(file), 0))
    BY <1>1 DEF LinkInv, OutputAgrees, PassesAgree
  <2> QED BY <1>7, <2>1
<1>9. \A k \in 1..next'-1 : ~HasEnum(TypesOf(k))'
  <2>1. \A k \in 1..next-1 : ~HasEnum(TypesOf(k)) BY <1>1 DEF LinkInv, OutputAgrees
  <2> QED BY <1>1, <1>2, <1>4, <2>1, SameTypesOf
<1>10. OutputAgrees'
  BY <1>1, <1>2, <1>5, <1>8, <1>9 DEF LinkInv, OutputAgrees, Emitted, ParserStages
<1> QED BY <1>1, <1>10, LinkTranslating

(* How the compiler ended is settled.                                      *)
LEMMA LinkEnd == ASSUME LinkInv, UNCHANGED parser, stage' = "ended" PROVE LinkInv'
<1>1. BodiesShaped' BY FileStays
<1>2. PassesAgree' BY DEF PassesAgree, ParserStages
<1>3. OutputAgrees' BY DEF OutputAgrees, ParserStages
<1> QED BY <1>1, <1>2, <1>3 DEF LinkInv

LEMMA LinkStutter == ASSUME LinkInv, UNCHANGED vars PROVE LinkInv'
<1>1. UNCHANGED <<stage, file, current, functions, globals, enums, members, functionCounter,
                  currentFunc, errorNumber, ids, notes, next, statement, prog>>
  BY DEF vars, parser, analyser, tables
<1>2. BodiesShaped' BY <1>1 DEF LinkInv, BodiesShaped
<1>3. PassesAgree' BY <1>1 DEF LinkInv, PassesAgree, IdsRight, Wrong, Agreed
<1>4. /\ FunctionsEmitted => FunctionsEmitted'
      /\ Emitted' = Emitted
      /\ \A k : HasEnum(TypesOf(k))' <=> HasEnum(TypesOf(k))
  BY <1>1, SameTypesOf DEF FunctionsEmitted, Emitted
<1>5. OutputAgrees' BY <1>1, <1>4 DEF LinkInv, OutputAgrees
<1> QED BY <1>2, <1>3, <1>5 DEF LinkInv

LEMMA LinkNext == IInv /\ LinkInv /\ [Next]_vars => LinkInv'
<1> SUFFICES ASSUME IInv, LinkInv, [Next]_vars PROVE LinkInv'
  OBVIOUS
<1>1. CASE Parse BY <1>1, LinkParse
<1>2. CASE Register BY <1>2, LinkRegister
<1>3. CASE NextPass("register", "analyse") BY <1>3, LinkSecondPass
<1>4. CASE AnalyseGlobal BY <1>4, LinkAnalyseGlobal
<1>5. CASE AnalyseEnum BY <1>5, LinkAnalyseEnum
<1>6. CASE AnalyseStruct BY <1>6, LinkAnalyseStruct
<1>7. CASE EnterFunction BY <1>7, LinkEnterFunction
<1>8. CASE AnalyseStatement BY <1>8, LinkAnalyseStatement
<1>9. CASE LeaveFunction BY <1>9, LinkLeaveFunction
<1>10. CASE GoOn BY <1>10, LinkGoOn
<1>11. CASE NullCode \/ StopOnErrors \/ EnumInNode \/ Finish
  BY <1>11, LinkEnd DEF NullCode, StopOnErrors, EnumInNode, Finish, Throw
<1>12. ASSUME NEW n \in Names, EmitGlobal(n) \/ EnumGlobal(n) PROVE LinkInv'
  BY <1>12, LinkEmitGlobal, LinkEnd DEF EnumGlobal, Throw
<1>13. CASE AllEmitted BY <1>13, LinkAllEmitted
<1>14. CASE TranslateFunction BY <1>14, LinkTranslateFunction
<1>15. CASE SkipNode BY <1>15, LinkSkipNode
<1>16. CASE Ended \/ UNCHANGED vars BY <1>16, LinkStutter DEF Ended
<1> QED BY <1>1, <1>2, <1>3, <1>4, <1>5, <1>6, <1>7, <1>8, <1>9, <1>10, <1>11, <1>12, <1>13,
           <1>14, <1>15, <1>16 DEF Next

-----------------------------------------------------------------------------
(***************************************************************************)
(* Every step is one of CompilerPromise, or none.                          *)
(***************************************************************************)
LEMMA PromiseInit == Init => Promise!Init
<1>1. NoOutput = Promise!NoOutput BY DEF NoOutput, Promise!NoOutput
<1> QED BY <1>1 DEF Init, ParserInit, Promise!Init

LEMMA Internal ==
  ASSUME file' = file, verdict = "none", verdict' = "none"
  PROVE  UNCHANGED Promise!vars
BY DEF Promise!vars

LEMMA PromiseRead ==
  ASSUME file \in Seq(Declared), NEW d, file' = Append(file, d), verdict = "none",
         verdict' = "none"
  PROVE  Promise!Read
<1>1. file \in Seq(Declared \cup {d}) OBVIOUS
<1>2. Len(file') = Len(file) + 1 /\ SubSeq(file', 1, Len(file)) = file BY <1>1
<1> QED BY <1>2 DEF Promise!Read

LEMMA ParserSteps ==
  ASSUME ParserNext
  PROVE  \/ file' = file /\ verdict' = verdict
         \/ verdict' = verdict /\ \E d : file' = Append(file, d)
         \/ file' = file /\ verdict' \in {"refused", "threw", "undefined"}
<1>1. ASSUME NEW d, Push(d) PROVE file' = Append(file, d) BY <1>1 DEF Push
<1>2. ASSUME NEW n, BeginEnum(n) \/ BeginStruct(n) PROVE file' = file /\ verdict' = verdict
  BY <1>2 DEF BeginEnum, BeginStruct, Open
<1>3. ASSUME NEW m, NEW value, NEW w, NEW n, NEW s,
             \/ EnumMember(m, value) \/ StructField(w) \/ BeginFunction(w, n)
             \/ FunctionParameter(w, n) \/ BeginBody \/ Sentence(s) \/ EndOfFile
      PROVE  file' = file /\ verdict' = verdict
  BY <1>3 DEF EnumMember, StructField, BeginFunction, Open, FunctionParameter, BeginBody,
              Sentence, EndOfFile, parser
<1>4. ASSUME EnumValueNoNumber \/ RunOffEnd \/ Refuse
      PROVE  file' = file /\ verdict' \in {"refused", "threw", "undefined"}
  BY <1>4 DEF EnumValueNoNumber, RunOffEnd, Refuse, parser
<1>5. ASSUME EndEnum \/ EndStruct \/ EndFunction \/ Prototype
      PROVE  verdict' = verdict /\ \E d : file' = Append(file, d)
  BY <1>1, <1>5 DEF EndEnum, EndStruct, EndFunction, Prototype
<1>6. ASSUME NEW w, NEW n, NEW body, Global(w, n, body)
      PROVE  verdict' = verdict /\ \E d : file' = Append(file, d)
  BY <1>1, <1>6 DEF Global
<1> QED BY <1>2, <1>3, <1>4, <1>5, <1>6 DEF ParserNext

LEMMA PromiseParse == ASSUME IInv, Parse PROVE Promise!Next \/ UNCHANGED Promise!vars
<1>1. file \in Seq(Declared) /\ verdict = "none"
  <2>1. stage \in ParserStages BY ParserShape DEF Parse
  <2> QED BY <2>1 DEF IInv, Typed, ParserTyped, ParserStages
<1>2. CASE file' = file /\ verdict' = verdict BY <1>1, <1>2, Internal
<1>3. CASE verdict' = verdict /\ \E d : file' = Append(file, d)
  BY <1>1, <1>3, PromiseRead DEF Promise!Next
<1>4. CASE file' = file /\ verdict' \in {"refused", "threw", "undefined"}
  BY <1>1, <1>4 DEF Promise!Next, Promise!Refuse
<1> QED BY <1>2, <1>3, <1>4, ParserSteps DEF Parse

LEMMA PromiseReject == ASSUME IInv, LinkInv, StopOnErrors PROVE Promise!Reject
<1>1. /\ stage = "analyse" /\ errorNumber # 0 /\ verdict' = "rejected" /\ file' = file
      /\ verdict = "none"
  BY DEF StopOnErrors, parser, IInv, Typed, ParserTyped
<1>2. AheadIn(file) \/ Wrong BY <1>1 DEF LinkInv, PassesAgree, Agreed
<1>3. Promise!UsesEnumAhead \/ \E i \in DOMAIN file : ~Promise!Right(i)
  BY <1>2, SamePromise DEF Wrong
<1> QED BY <1>1, <1>3 DEF Promise!Reject

LEMMA PromiseNullCode == ASSUME IInv, NullCode PROVE Promise!NullCode
<1>1. /\ next <= Len(file) /\ node.decl = "function" /\ ~node.defined
      /\ verdict' = "null code" /\ file' = file /\ verdict = "none" /\ Typed
  BY DEF NullCode, Visit, parser, IInv, Typed, ParserTyped
<1>2. next \in DOMAIN file BY <1>1, NodeFacts
<1>3. next \in Promise!Are("function") /\ ~file[next].defined
  BY <1>1, <1>2, SameTables DEF AreIn, node
<1> QED BY <1>1, <1>3 DEF Promise!NullCode

(* A global of enum type was declared with that type.                      *)
LEMMA GlobalDeclared ==
  ASSUME NEW f \in Seq(Declared), NEW n \in DOMAIN GlobalsIn(f, Len(f))
  PROVE  \E i \in DOMAIN f : f[i].decl = "variable" /\ f[i].type = GlobalsIn(f, Len(f))[n]
<1>1. \E k \in OfIn(f, "variable", n) : TRUE BY DEF GlobalsIn, NamesAt, UptoIn, OfIn
<1>2. OfIn(f, "variable", n) \in SUBSET Nat BY DEF OfIn, AreIn
<1>3. First(OfIn(f, "variable", n)) \in OfIn(f, "variable", n) BY <1>1, <1>2, FirstFacts
<1>4. GlobalsIn(f, Len(f))[n] = f[First(OfIn(f, "variable", n))].type BY DEF GlobalsIn
<1> QED BY <1>3, <1>4 DEF OfIn, AreIn

(* What the translator asks of the notes is what is read off the file.     *)
LEMMA EnumsTranslated ==
  ASSUME Agreed(Len(file), 0), file \in Seq(Declared), NEW i \in DOMAIN file,
         file[i].decl \in DeclarationKinds
  PROVE  EnumTypeAt(file, i) <=> HasEnum(TypesOf(i))
<1>1. i \in 1..Len(file) OBVIOUS
<1>2. CASE file[i].decl = "variable"
  BY <1>2 DEF EnumTypeAt, HasEnum, TypesOf
<1>3. CASE file[i].decl = "function"
  <2>1. ASSUME NEW j \in DOMAIN file[i].body
        PROVE  notes[<<i, j>>].types = TypesTranslated(TablesIn(file, i), file[i].body[j], WantedIn(file, i))
    <3>1. notes[<<i, j>>] = NoteIn(file, i, j) BY <1>1, <1>3 DEF Agreed
    <3> QED BY <3>1 DEF NoteIn
  <2>2. TypesOf(i) = {file[i].type} \cup UNION {notes[<<i, j>>].types : j \in DOMAIN file[i].body}
    BY <1>3 DEF TypesOf
  <2>3. HasEnum(TypesOf(i)) <=> \/ file[i].type.kind = "ENUM"
                                \/ \E j \in DOMAIN file[i].body :
                                     \E t \in notes[<<i, j>>].types : t.kind = "ENUM"
    BY <2>2 DEF HasEnum
  <2> QED BY <1>3, <2>1, <2>3 DEF EnumTypeAt
<1>4. CASE file[i].decl \in {"enum", "struct"}
  BY <1>4 DEF EnumTypeAt, HasEnum, TypesOf
<1> QED BY <1>2, <1>3, <1>4 DEF DeclarationKinds

LEMMA PromiseFail ==
  ASSUME IInv, LinkInv, EnumInNode \/ \E n \in Names : EnumGlobal(n)
  PROVE  Promise!Fail
<1>1. /\ stage \in {"globals", "translate"} /\ verdict' = "unsupported" /\ file' = file
      /\ verdict = "none" /\ Typed /\ file \in Seq(Declared)
  BY DEF EnumInNode, EnumGlobal, Throw, parser, IInv, Typed, ParserTyped
<1>2. AheadIn(file) \/ Agreed(Len(file), 0) BY <1>1 DEF LinkInv, PassesAgree
<1>3. ASSUME Agreed(Len(file), 0) PROVE \A i \in DOMAIN file : RightIn(file, i)
  BY <1>1, <1>3 DEF Agreed
<1>4. ASSUME Agreed(Len(file), 0) PROVE \E i \in DOMAIN file : EnumTypeAt(file, i)
  <2>1. CASE EnumInNode
    <3>1. next <= Len(file) /\ HasEnum(TypesOf(next)) BY <2>1 DEF EnumInNode
    <3>2. next \in DOMAIN file /\ file[next].decl \in DeclarationKinds
      BY <1>1, <3>1, NodeFacts DEF node
    <3> QED BY <1>1, <1>4, <3>1, <3>2, EnumsTranslated
  <2>2. CASE \E n \in Names : EnumGlobal(n)
    <3>1. PICK n \in DOMAIN globals : globals[n].kind = "ENUM" BY <2>2 DEF EnumGlobal
    <3>2. globals = GlobalsIn(file, Len(file)) BY <1>4 DEF Agreed
    <3>3. PICK i \in DOMAIN file : file[i].decl = "variable" /\ file[i].type = globals[n]
      BY <1>1, <3>2, GlobalDeclared
    <3>4. EnumTypeAt(file, i) BY <3>1, <3>3 DEF EnumTypeAt
    <3> QED BY <3>4
  <2> QED BY <2>1, <2>2
<1>5. Promise!UsesEnumAhead \/ ((\A i \in DOMAIN file : Promise!Right(i)) /\ Promise!UsesEnumType)
  BY <1>2, <1>3, <1>4, SamePromise
<1> QED BY <1>1, <1>5 DEF Promise!Fail

LEMMA PromiseGlobals ==
  ASSUME Typed, OutputAgrees, Agreed(Len(file), 0), stage = "translate", NEW output, output = prog
  PROVE  Promise!GlobalsRight(output)
<1>1. file \in Seq(Declared) BY DEF Typed, ParserTyped
<1>2. globals = GlobalsIn(file, Len(file)) BY DEF Agreed
<1>3. DOMAIN globals = NamesAt(file, AreIn(file, "variable"))
  BY <1>1, <1>2, UptoFacts DEF GlobalsIn
<1>4. /\ Emitted = DOMAIN globals /\ Len(prog.globals) = Cardinality(Emitted)
      /\ \A g \in DOMAIN prog.globals :
           prog.globals[g] = <<prog.globals[g][1], globals[prog.globals[g][1]]>>
  BY DEF OutputAgrees
<1>5. {prog.globals[g] : g \in DOMAIN prog.globals} = {<<n, globals[n]>> : n \in DOMAIN globals}
  <2>1. ASSUME NEW g \in DOMAIN prog.globals
        PROVE  prog.globals[g] \in {<<n, globals[n]>> : n \in DOMAIN globals}
    BY <1>4 DEF Emitted
  <2>2. ASSUME NEW n \in DOMAIN globals
        PROVE  \E g \in DOMAIN prog.globals : prog.globals[g] = <<n, globals[n]>>
    <3>1. PICK g \in DOMAIN prog.globals : prog.globals[g][1] = n BY <1>4 DEF Emitted
    <3> QED BY <1>4, <3>1
  <2> QED BY <2>1, <2>2
<1>6. /\ Promise!NamesOf(Promise!Are("variable")) = DOMAIN globals
      /\ Promise!Globals(Len(file)) = globals
  BY <1>2, <1>3, SameTables
<1>7. Len(output.globals) = Promise!Cardinality(DOMAIN globals)
  BY <1>4, SameCardinality
<1> QED BY <1>5, <1>6, <1>7 DEF Promise!GlobalsRight

LEMMA PromiseFunctions ==
  ASSUME file \in Seq(Declared), FunctionsEmitted, next - 1 = Len(file), NEW output, output = prog
  PROVE  Promise!FunctionsRight(output)
<1>1. UptoIn(next-1, AreIn(file, "function")) = AreIn(file, "function") BY UptoFacts
<1>2. /\ Len(prog.functions) = Cardinality(AreIn(file, "function"))
      /\ \A k \in AreIn(file, "function") : prog.functions[IdIn(file, k) + 1] = EmissionIn(file, k)
  BY <1>1 DEF FunctionsEmitted
<1>3. ASSUME NEW k
      PROVE  EmissionIn(file, k) =
               [id      |-> Promise!Id(k),
                retType |-> file[k].type,
                code    |-> [j \in DOMAIN file[k].body |->
                   Promise!Instruction(Promise!EnumMembers(Len(file)), file[k].body[j],
                                       Promise!Callee(file[k].body[j]))]]
  BY SameTables, SamePromise, SameInstruction DEF EmissionIn
<1> QED BY <1>2, <1>3, SameTables, SameCardinality DEF Promise!FunctionsRight

LEMMA PromiseCompile == ASSUME IInv, LinkInv, Finish PROVE Promise!Compile
<1>1. /\ stage = "translate" /\ next > Len(file) /\ verdict' = "compiled" /\ file' = file
      /\ prog' = prog /\ verdict = "none" /\ Typed /\ file \in Seq(Declared)
  BY DEF Finish, parser, IInv, Typed, ParserTyped
<1>2. next - 1 = Len(file) BY <1>1 DEF Typed, PlaceTyped
<1>3. AheadIn(file) \/ (Agreed(Len(file), 0) /\ FunctionsEmitted)
  BY <1>1 DEF LinkInv, PassesAgree, OutputAgrees
<1>4. ASSUME Agreed(Len(file), 0), FunctionsEmitted
      PROVE  /\ \A i \in DOMAIN file : RightIn(file, i) /\ ~EnumTypeAt(file, i)
             /\ Promise!GlobalsRight(prog) /\ Promise!FunctionsRight(prog)
  <2>1. \A i \in DOMAIN file : RightIn(file, i) BY <1>1, <1>4 DEF Agreed
  <2>2. ASSUME NEW i \in DOMAIN file PROVE ~EnumTypeAt(file, i)
    <3>1. file[i].decl \in DeclarationKinds
      <4>1. file[i] \in Declared BY <1>1, ElementOf
      <4> QED BY <4>1, DeclaredFacts
    <3>2. ~HasEnum(TypesOf(i)) BY <1>1, <1>2 DEF LinkInv, OutputAgrees
    <3> QED BY <1>1, <1>4, <3>1, <3>2, EnumsTranslated
  <2>3. OutputAgrees BY DEF LinkInv
  <2> QED BY <1>1, <1>2, <1>4, <2>1, <2>2, <2>3, PromiseGlobals, PromiseFunctions
<1>5. \/ Promise!UsesEnumAhead
      \/ /\ \A i \in DOMAIN file : Promise!Right(i)
         /\ ~Promise!UsesEnumType
         /\ Promise!GlobalsRight(prog) /\ Promise!FunctionsRight(prog)
  BY <1>3, <1>4, SamePromise
<1> QED BY <1>1, <1>5 DEF Promise!Compile

LEMMA PromiseNext == IInv /\ LinkInv /\ [Next]_vars => [Promise!Next]_(Promise!vars)
<1> SUFFICES ASSUME IInv, LinkInv, [Next]_vars PROVE Promise!Next \/ UNCHANGED Promise!vars
  OBVIOUS
<1> USE DEF Promise!Next
<1>1. CASE Parse BY <1>1, PromiseParse
<1>2. CASE StopOnErrors BY <1>2, PromiseReject
<1>3. CASE NullCode BY <1>3, PromiseNullCode
<1>4. CASE EnumInNode \/ \E n \in Names : EnumGlobal(n) BY <1>4, PromiseFail
<1>5. CASE Finish BY <1>5, PromiseCompile
<1>6. ASSUME stage \in Later, UNCHANGED <<verdict, parser>> PROVE UNCHANGED Promise!vars
  <2>1. file' = file /\ verdict = "none" /\ verdict' = "none"
    BY <1>6 DEF parser, IInv, Typed, ParserTyped, Later
  <2> QED BY <2>1, Internal
<1>7. CASE Register \/ NextPass("register", "analyse") \/ GoOn
  BY <1>6, <1>7 DEF Register, NextPass, GoOn, Later
<1>8. CASE AnalyseGlobal \/ AnalyseEnum \/ AnalyseStruct \/ LeaveFunction
  BY <1>6, <1>8
     DEF AnalyseGlobal, AnalyseEnum, AnalyseStruct, LeaveFunction, Visit, Visited, Later
<1>9. CASE EnterFunction \/ AnalyseStatement
  BY <1>6, <1>9 DEF EnterFunction, AnalyseStatement, Visit, Later
<1>10. CASE AllEmitted \/ TranslateFunction \/ SkipNode \/ \E n \in Names : EmitGlobal(n)
  BY <1>6, <1>10 DEF AllEmitted, TranslateFunction, SkipNode, EmitGlobal, Later
<1>11. CASE Ended \/ UNCHANGED vars
  BY <1>11 DEF Ended, vars, parser, Promise!vars
<1> QED BY <1>1, <1>2, <1>3, <1>4, <1>5, <1>7, <1>8, <1>9, <1>10, <1>11 DEF Next

-----------------------------------------------------------------------------
(* What the passes have worked out is what a reader finds in the file, as  *)
(* long as no error is counted and no enum is used ahead of its            *)
(* declaration: the tables of the analyser, the ids and types it writes    *)
(* into the nodes, and the output so far.                                  *)
THEOREM PassesReadTheFile == Spec => []LinkInv
<1>1. Init => LinkInv BY LinkInit
<1>2. IInv /\ LinkInv /\ [Next]_vars => LinkInv' BY LinkNext
<1> QED BY <1>1, <1>2, InductiveInvariant, PTL DEF Spec

(* The compiler keeps its promise, for files of any length over any names: *)
(* what main's passes do one after the other implements CompilerPromise.   *)
(* In particular it compiles only what it should, every global stands once *)
(* in the output, and every function under the number its callers use.     *)
THEOREM ImplementsPromise == Spec => KeepsPromise
<1>1. Init => Promise!Init BY PromiseInit
<1>2. IInv /\ LinkInv /\ [Next]_vars => [Promise!Next]_(Promise!vars) BY PromiseNext
<1> QED BY <1>1, <1>2, InductiveInvariant, PassesReadTheFile, PTL
        DEF Spec, KeepsPromise, Promise!Spec

=============================================================================
