--------------------------- MODULE NebulaPrograms ---------------------------
(***************************************************************************)
(* Programs as lists of declarations, and the check of a statement against *)
(* symbol tables.  These are operators on tables: Compiler uses them with  *)
(* the tables the analyser has built so far, CompilerPromise with the      *)
(* tables a reader of the program would write down.                        *)
(*                                                                         *)
(* A statement is a return, a call or the initialiser of a global; its     *)
(* expression is a literal, a variable, an enum member or a call of these. *)
(* Scopes and Expressions have the other ones.                             *)
(***************************************************************************)
EXTENDS NebulaTypes, FiniteSets

CONSTANTS
  Names,      (* Identifiers of types, variables and functions.            *)
  Members     (* Identifiers of enum members.                              *)

NoName == ""

(* Type{}, what operator[] inserts: the first of the kinds.                *)
Untyped == Builtin("FLOAT32")

Types == [kind : Kinds, name : Names \cup {NoName}]

-----------------------------------------------------------------------------
(***************************************************************************)
(* Syntax.                                                                 *)
(***************************************************************************)
Literal          == [node |-> "literal"]
Access(n)        == [node |-> "access", name |-> n]
EnumAccess(e, m) == [node |-> "member", key |-> <<e, m>>]
Call(f, args)    == [node |-> "call", name |-> f, args |-> args]

Simple == {Literal} \cup {Access(n) : n \in Names}
                    \cup {EnumAccess(e, m) : e \in Names, m \in Members}
Calls  == [node : {"call"}, name : Names, args : Seq(Simple)]

(* stmt: "return", "call", or "init" for the initialiser of a global.      *)
Statement(stmt, value) == [stmt |-> stmt, value |-> value]
Statements == [stmt : {"return", "init"}, value : Simple \cup Calls]
                \cup [stmt : {"call"}, value : Calls]

(* A member of an enum, a field of a struct (without its name, which       *)
(* nothing here depends on) or a parameter.                                *)
Enumerator(m, value) == [name |-> m, value |-> value]
Field(word, type)    == [word |-> word, type |-> type]
Parameter(n, type)   == [name |-> n, type |-> type]

(* defined: the function has a body; code is null in the one that has none *)
Declaration(decl, name, type) ==
  [decl |-> decl, name |-> name, type |-> type, parts |-> <<>>, body |-> <<>>,
   defined |-> FALSE]

(* hasReturn of a body without if statements.                              *)
hasReturn(body) == \E j \in DOMAIN body : body[j].stmt = "return"

(* Mutant: the boundary is one too high.                                   *)
BackingKind256(enum) ==
  IF \E p \in DOMAIN enum.parts : enum.parts[p].value > 256 THEN "UINT16" ELSE "UINT8"

(* What max_value makes the backing type of an enum and of its members.    *)
BackingKind(enum) ==
  IF \E p \in DOMAIN enum.parts : enum.parts[p].value > 255 THEN "UINT16" ELSE "UINT8"

FunctionInfo(function, id) ==
  [retType   |-> function.type,
   paramType |-> [p \in DOMAIN function.parts |-> function.parts[p].type],
   id        |-> id]

MemberInfo(value, kind) == [value |-> value, kind |-> kind]

-----------------------------------------------------------------------------
(***************************************************************************)
(* Tables: functions, globals, enums (name -> kind of the backing type),   *)
(* members (<<enum, member>> -> MemberInfo), the parameters in scope, and  *)
(* whether a scope is open at all.                                         *)
(***************************************************************************)

IsTable(table, keys, values) ==
  DOMAIN table \subseteq keys /\ \A k \in DOMAIN table : table[k] \in values

(* Mutant: the entry is replaced.                                          *)
insert_or_assign(table, keys, value) ==
  [k \in keys \cup DOMAIN table |-> IF k \in keys THEN value ELSE table[k]]

(* unordered_map::emplace leaves an entry that is there alone, and so does *)
(* operator[], which inserts a default.                                    *)
emplace(table, keys, value) ==
  [k \in keys \cup DOMAIN table |-> IF k \in DOMAIN table THEN table[k] ELSE value]

(* What a run of emplace over a list leaves: the first with a name stays.  *)
First(S) == CHOOSE i \in S : \A j \in S : i <= j
Named(list, n)  == {p \in DOMAIN list : list[p].name = n}
NamesIn(list)   == {list[p].name : p \in DOMAIN list}
FirstNamed(list, n) == list[First(Named(list, n))]

(* The parameters of a function as its scope has them.                     *)
Bound(function) == [n \in NamesIn(function.parts) |-> FirstNamed(function.parts, n).type]

(* The defaults.                                                           *)
NoFunction == [retType |-> Untyped, paramType |-> <<>>, id |-> 0]
NoMember   == MemberInfo(0, Untyped.kind)

function(env, f) == IF f \in DOMAIN env.functions THEN env.functions[f] ELSE NoFunction
member(env, key) == IF key \in DOMAIN env.members THEN env.members[key] ELSE NoMember
backing(env)     == [e \in Names |-> IF e \in DOMAIN env.enums THEN env.enums[e]
                                     ELSE Untyped.kind]

variableType(env, n) ==
  CASE n \in DOMAIN env.parameters -> env.parameters[n]
    [] n \notin DOMAIN env.parameters /\ n \in DOMAIN env.globals -> env.globals[n]
    [] OTHER -> Builtin("INT32")

type_precision(env, e) ==
  CASE e.node = "literal" -> Builtin("INT32")
    [] e.node = "access"  -> variableType(env, e.name)
    [] e.node = "member"  -> Builtin(member(env, e.key).kind)
    [] e.node = "call"    -> function(env, e.name).retType

-----------------------------------------------------------------------------
(***************************************************************************)
(* The check of a statement; to is the type its value is converted to.     *)
(***************************************************************************)

(* The arguments that are compared with a parameter.  They are not         *)
(* analysed.                                                               *)
Compared(env, e) ==
  IF e.node = "call" THEN DOMAIN e.args \cap DOMAIN function(env, e.name).paramType
  ELSE {}

(* The expressions that are converted to a type: 0 for the statement's     *)
(* value, i for the i-th argument of a call.                               *)
Converted(env, s) == Compared(env, s.value) \cup (IF s.stmt = "call" THEN {} ELSE {0})

Expression(s, i) == IF i = 0 THEN s.value ELSE s.value.args[i]

From(env, s, i)     == type_precision(env, Expression(s, i))
Into(env, s, to, i) == IF i = 0 THEN to ELSE function(env, s.value.name).paramType[i]

(* The errors codeSemanticAnalyses prints, as <<which, argument>>.         *)
ExpressionErrors(env, e) ==
  CASE e.node = "literal" -> {}
    [] e.node = "access"  ->
         IF env.scoped /\ e.name \in DOMAIN env.parameters \cup DOMAIN env.globals
         THEN {} ELSE {<<"undeclared", 0>>}
    [] e.node = "member"  ->
         IF e.key \in DOMAIN env.members THEN {} ELSE {<<"unknown member", 0>>}
    [] e.node = "call"    ->
         (IF e.name \in DOMAIN env.functions THEN {} ELSE {<<"unknown function", 0>>})
           \cup (IF Len(e.args) = Len(function(env, e.name).paramType) THEN {}
                 ELSE {<<"argument count", 0>>})

StatementErrors(env, s, to) ==
  ExpressionErrors(env, s.value)
    \cup {<<"conversion", i>> : i \in {c \in Converted(env, s) :
            TypeError(From(env, s, c), Into(env, s, to, c), backing(env))}}

(***************************************************************************)
(* The keys it looks up with operator[] on the way.                        *)
(***************************************************************************)
FunctionsLookedUp(s) == IF s.value.node = "call" THEN {s.value.name} ELSE {}

MembersLookedUp(env, s) ==
  {Expression(s, i).key : i \in {c \in Converted(env, s) : Expression(s, c).node = "member"}}

(* tryPromote gets to the sizes only if resolve_type does not decide.      *)
SizesCompared(from, to) ==
  from.kind # to.kind /\ resolve_type(from, to).kind # to.kind

EnumsLookedUp(env, s, to) ==
  UNION {{t.name : t \in {u \in {From(env, s, i), Into(env, s, to, i)} : u.kind = "ENUM"}} :
           i \in {c \in Converted(env, s) :
                    SizesCompared(From(env, s, c), Into(env, s, to, c))}}

-----------------------------------------------------------------------------
(***************************************************************************)
(* The translation of a statement.                                         *)
(***************************************************************************)

(* The types toIRType is asked for: of a variable, of the result of a call *)
(* and of each promotion.                                                  *)
TypesTranslated(env, s, to) ==
  (IF s.value.node \in {"access", "call"} THEN {type_precision(env, s.value)} ELSE {})
    \cup {Into(env, s, to, i) : i \in {c \in Converted(env, s) :
            From(env, s, c).kind # Into(env, s, to, c).kind}}

(* An enum member becomes a constant, from the final table.  Where a       *)
(* variable is read from is left to Scopes and Expressions.                *)
Operand(memberTable, e) ==
  CASE e.node # "member" -> [node |-> e.node]
    [] e.node = "member" /\ e.key \in DOMAIN memberTable -> memberTable[e.key]
    [] OTHER -> NoMember

(* id: the function called, by its number.                                 *)
Instruction(memberTable, s, id) ==
  [stmt     |-> s.stmt,
   callee   |-> IF s.value.node = "call" THEN {id} ELSE {},
   operands |-> IF s.value.node = "call"
                THEN [i \in DOMAIN s.value.args |-> Operand(memberTable, s.value.args[i])]
                ELSE <<Operand(memberTable, s.value)>>]

=============================================================================
