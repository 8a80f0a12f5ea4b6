------------------------------ MODULE Compiler ------------------------------
(***************************************************************************)
(* A file from its declarations to its IR: what main runs, pass by pass.   *)
(* The parser (Declarations) hands its list of declarations to the         *)
(* analyser, which registers every function and then visits the            *)
(* declarations in order; if it counts no error the translator emits the   *)
(* globals and the functions.                                              *)
(***************************************************************************)
EXTENDS Declarations

VARIABLES
  (* Semantic *)
  functions, globals, enums, members,   (* as in NebulaPrograms            *)
  structs,          (* name -> it was laid out (not a default entry)       *)
  functionCounter,
  currentFunc,      (* currentFunc.retType                                 *)
  errorNumber,
  next,             (* the declaration to visit                            *)
  statement,        (* the statement to visit in it; 0 before its first    *)
  ids,              (* n.id of the declarations (0 if not a function)      *)
  notes,            (* <<declaration, statement>> -> what the analyser     *)
                    (* writes into the nodes: the id of the function       *)
                    (* called and the types the translator will ask for    *)
  (* IRTranslator *)
  prog              (* globals: <<name, type>>; functions                  *)

tables   == <<functions, globals, enums, members, structs>>
analyser == <<tables, functionCounter, currentFunc, errorNumber, ids, notes>>
vars     == <<stage, verdict, parser, analyser, next, statement, prog>>

NoOutput == [globals |-> <<>>, functions |-> <<>>]

Init ==
  /\ ParserInit
  /\ functions = <<>> /\ globals = <<>> /\ enums = <<>> /\ members = <<>> /\ structs = <<>>
  /\ functionCounter = 0 /\ currentFunc = Untyped /\ errorNumber = 0
  /\ next = 1 /\ statement = 0 /\ ids = <<>> /\ notes = <<>>
  /\ prog = NoOutput

Parse == ParserNext /\ UNCHANGED <<analyser, next, statement, prog>>

-----------------------------------------------------------------------------
(***************************************************************************)
(* The analyser, first pass: functions, wherever they are.                 *)
(***************************************************************************)
node == file[next]

Register ==
  /\ stage = "register" /\ next <= Len(file)
  /\ IF node.decl = "function"
     THEN /\ functions' = emplace(functions, {node.name}, FunctionInfo(node, functionCounter))
          /\ functionCounter' = functionCounter + 1
          /\ ids' = Append(ids, functionCounter)
          /\ currentFunc' = node.type
     ELSE ids' = Append(ids, 0) /\ UNCHANGED <<functions, functionCounter, currentFunc>>
  /\ next' = next + 1
  /\ UNCHANGED <<stage, verdict, parser, globals, enums, members, structs, errorNumber,
                 statement, notes, prog>>

(* The passes and the loops in them start over at the first declaration.   *)
NextPass(from, to) ==
  /\ stage = from /\ next > Len(file)
  /\ stage' = to /\ next' = 1
  /\ UNCHANGED <<verdict, parser, analyser, statement, prog>>

-----------------------------------------------------------------------------
(***************************************************************************)
(* Second pass.                                                            *)
(***************************************************************************)
Tables(gl, parameters, scoped) ==
  [functions |-> functions, globals |-> gl, enums |-> enums, members |-> members,
   parameters |-> parameters, scoped |-> scoped]

Errors(messages) == errorNumber' = errorNumber + Cardinality(messages)

(* The entries that operator[] leaves behind in a check.                   *)
LookUp(env, s, to) ==
  /\ functions' = emplace(functions, FunctionsLookedUp(s), NoFunction)
  /\ enums'     = emplace(enums, EnumsLookedUp(env, s, to), Untyped.kind)
  /\ members'   = emplace(members, MembersLookedUp(env, s), NoMember)

(* codeSemanticAnalyses of a statement, or of an initialiser.              *)
Analyse(env, s, to, place) ==
  /\ Errors(StatementErrors(env, s, to))
  /\ LookUp(env, s, to)
  /\ notes' = [p \in DOMAIN notes \cup {place} |->
                 IF p = place
                 THEN [id    |-> IF s.value.node = "call"
                                 THEN function(env, s.value.name).id ELSE 0,
                       types |-> TypesTranslated(env, s, to)]
                 ELSE notes[p]]

Visit(decl) == stage = "analyse" /\ next <= Len(file) /\ node.decl = decl

Visited == next' = next + 1 /\ UNCHANGED <<stage, verdict, parser, functionCounter, ids, prog>>

(* No scope is open: an initialiser that names a variable is an error.     *)
AnalyseGlobal ==
  /\ Visit("variable")
  /\ globals' = emplace(globals, {node.name}, node.type)
  /\ IF node.body = <<>>
     THEN UNCHANGED <<functions, enums, members, notes, errorNumber>>
     ELSE Analyse(Tables(globals', <<>>, FALSE), node.body[1], node.type, <<next, 1>>)
  /\ Visited
  /\ UNCHANGED <<structs, currentFunc, statement>>

(* The enum's own entry, then one for each member.                         *)
MemberKeys(enum) == {enum.name} \X NamesIn(enum.parts)

AnalyseEnum ==
  /\ Visit("enum")
  /\ enums' = emplace(enums, {node.name}, BackingKind(node))
  /\ members' = [key \in MemberKeys(node) \cup DOMAIN members |->
                   IF key \in DOMAIN members THEN members[key]
                   ELSE MemberInfo(FirstNamed(node.parts, key[2]).value, BackingKind(node))]
  /\ Visited
  /\ UNCHANGED <<functions, globals, structs, currentFunc, errorNumber, statement, notes>>

StructNames(ps) == {ps[p].type.name : p \in {q \in DOMAIN ps : ps[q].type.kind = "STRUCT"}}

(* structSize looks up the structs among the fields, then the struct is    *)
(* registered, if its name is free.                                        *)
AnalyseStruct ==
  /\ Visit("struct")
  /\ structs' = emplace(emplace(structs, StructNames(node.parts), FALSE), {node.name}, TRUE)
  /\ Visited
  /\ UNCHANGED <<functions, globals, enums, members, currentFunc, errorNumber, statement, notes>>

(* currentFunc is the first definition of the name.                        *)
EnterFunction ==
  /\ Visit("function") /\ statement = 0
  /\ currentFunc' = functions[node.name].retType
  /\ structs' = emplace(structs, StructNames(node.parts), FALSE)
  /\ statement' = 1
  /\ UNCHANGED <<stage, verdict, parser, functions, globals, enums, members, functionCounter,
                 errorNumber, next, ids, notes, prog>>

AnalyseStatement ==
  /\ Visit("function") /\ statement \in DOMAIN node.body
  /\ Analyse(Tables(globals, Bound(node), TRUE), node.body[statement], currentFunc,
             <<next, statement>>)
  /\ statement' = statement + 1
  /\ UNCHANGED <<stage, verdict, parser, globals, structs, functionCounter, currentFunc, next,
                 ids, prog>>

(* Mutant: the next function starts where this one ended.                  *)
LeaveFunctionOpen ==
  /\ Visit("function") /\ statement = Len(node.body) + 1
  /\ node.defined
  /\ Errors(IF node.type.kind # "VOID" /\ ~hasReturn(node.body) THEN {"no return"} ELSE {})
  /\ Visited
  /\ UNCHANGED <<tables, currentFunc, statement, notes>>

(* hasReturn is asked of the code, and the type is this definition's.      *)
LeaveFunction ==
  /\ Visit("function") /\ statement = Len(node.body) + 1
  /\ node.defined
  /\ Errors(IF node.type.kind # "VOID" /\ ~hasReturn(node.body) THEN {"no return"} ELSE {})
  /\ Visited
  /\ statement' = 0
  /\ UNCHANGED <<tables, currentFunc, notes>>

(* There is no code: a null pointer is followed.                           *)
NullCode ==
  /\ Visit("function") /\ statement = Len(node.body) + 1
  /\ ~node.defined
  /\ verdict' = "null code" /\ stage' = "ended"
  /\ UNCHANGED <<parser, analyser, next, statement, prog>>

-----------------------------------------------------------------------------
(***************************************************************************)
(* main stops after errors.                                                *)
(***************************************************************************)
StopOnErrors ==
  /\ stage = "analyse" /\ next > Len(file) /\ errorNumber # 0
  /\ verdict' = "rejected" /\ stage' = "ended"
  /\ UNCHANGED <<parser, analyser, next, statement, prog>>

GoOn == errorNumber = 0 /\ NextPass("analyse", "globals")

-----------------------------------------------------------------------------
(***************************************************************************)
(* The translator.  toIRType throws for an enum.                           *)
(***************************************************************************)
Throw ==
  /\ verdict' = "unsupported" /\ stage' = "ended"
  /\ UNCHANGED <<parser, analyser, next, statement, prog>>

Emitted == {prog.globals[g][1] : g \in DOMAIN prog.globals}

(* The table of globals is unordered.                                      *)
EmitGlobal(n) ==
  /\ stage = "globals" /\ n \in DOMAIN globals \ Emitted
  /\ globals[n].kind # "ENUM"
  /\ prog' = [prog EXCEPT !.globals = Append(@, <<n, globals[n]>>)]
  /\ UNCHANGED <<stage, verdict, parser, analyser, next, statement>>

EnumGlobal(n) ==
  /\ stage = "globals" /\ n \in DOMAIN globals \ Emitted
  /\ globals[n].kind = "ENUM"
  /\ Throw

AllEmitted ==
  /\ stage = "globals" /\ DOMAIN globals = Emitted
  /\ stage' = "translate"
  /\ UNCHANGED <<verdict, parser, analyser, next, statement, prog>>

HasEnum(types) == \E t \in types : t.kind = "ENUM"

(* All that reaches toIRType for a node at the root.                       *)
TypesOf(k) ==
  CASE file[k].decl = "variable" -> {file[k].type}
    [] file[k].decl = "function" ->
         {file[k].type} \cup UNION {notes[<<k, j>>].types : j \in DOMAIN file[k].body}
    [] OTHER -> {}

TranslateFunction ==
  /\ stage = "translate" /\ next <= Len(file)
  /\ node.decl = "function" /\ ~HasEnum(TypesOf(next))
  /\ prog' = [prog EXCEPT !.functions = Append(@,
       [id      |-> ids[next],
        retType |-> node.type,
        code    |-> [j \in DOMAIN node.body |->
                       Instruction(members, node.body[j], notes[<<next, j>>].id)]])]
  /\ next' = next + 1
  /\ UNCHANGED <<stage, verdict, parser, analyser, statement>>

(* A temporary is made for an enum or a struct; nothing is emitted.        *)
SkipNode ==
  /\ stage = "translate" /\ next <= Len(file)
  /\ node.decl # "function" /\ ~HasEnum(TypesOf(next))
  /\ next' = next + 1
  /\ UNCHANGED <<stage, verdict, parser, analyser, statement, prog>>

EnumInNode ==
  /\ stage = "translate" /\ next <= Len(file)
  /\ HasEnum(TypesOf(next))
  /\ Throw

(* The IR is printed.                                                      *)
Finish ==
  /\ stage = "translate" /\ next > Len(file)
  /\ verdict' = "compiled" /\ stage' = "ended"
  /\ UNCHANGED <<parser, analyser, next, statement, prog>>

Ended == stage = "ended" /\ UNCHANGED vars

-----------------------------------------------------------------------------
Next ==
  \/ Parse
  \/ Register \/ NextPass("register", "analyse")
  \/ AnalyseGlobal \/ AnalyseEnum \/ AnalyseStruct
  \/ EnterFunction \/ AnalyseStatement \/ LeaveFunction \/ NullCode
  \/ StopOnErrors \/ GoOn
  \/ \E n \in Names : EmitGlobal(n) \/ EnumGlobal(n)
  \/ AllEmitted
  \/ TranslateFunction \/ SkipNode \/ EnumInNode \/ Finish
  \/ Ended

Spec == Init /\ [][Next]_vars

-----------------------------------------------------------------------------
(***************************************************************************)
(* Properties.                                                             *)
(***************************************************************************)
Stages   == ParserStages \cup {"register", "analyse", "globals", "translate", "ended"}
Verdicts == {"none", "refused", "threw", "undefined", "rejected", "null code",
             "unsupported", "compiled"}

Parts(decl) ==
  CASE decl = "enum"     -> [name : Members, value : Nat]
    [] decl = "struct"   -> [word : AllWords, type : Types]
    [] decl = "function" -> [name : Names, type : Types]
    [] OTHER             -> {}

IsDeclaration(d) ==
  /\ d = [decl |-> d.decl, name |-> d.name, type |-> d.type, parts |-> d.parts,
          body |-> d.body, defined |-> d.defined]
  /\ d.decl \in {"enum", "struct", "variable", "function"}
  /\ d.name \in Names /\ d.type \in Types /\ d.defined \in BOOLEAN
  /\ d.parts \in Seq(Parts(d.decl)) /\ d.body \in Seq(Statements)

Functions == [retType : Types, paramType : Seq(Types), id : Nat]
Infos     == [value : Nat, kind : Kinds]
Keys      == Names \X Members
Code      == [stmt : {"return", "call", "init"}, callee : SUBSET Nat,
              operands : Seq([node : {"literal", "access"}] \cup Infos)]

(* Every variable has its type: the tables hold what their passes put in   *)
(* them, and a visit stays inside the list and the body it visits.         *)
TypeOK ==
  /\ stage \in Stages /\ verdict \in Verdicts /\ (stage = "ended" <=> verdict # "none")
  /\ IsTable(typeTable, AllWords, Types) /\ DOMAIN builtinTypes \subseteq DOMAIN typeTable
  /\ file \in Seq({file[k] : k \in DOMAIN file}) /\ \A k \in DOMAIN file : IsDeclaration(file[k])
  /\ current # NoDeclaration => IsDeclaration(current)
  /\ stage \in {"enum", "struct"} => current.decl = stage
  /\ stage \in {"parameters", "body"} => current.decl = "function"
  /\ counter \in Nat /\ ahead \in BOOLEAN /\ parts \in 0..MaxParts
  /\ IsTable(functions, Names, Functions) /\ IsTable(globals, Names, Types)
  /\ IsTable(enums, Names, Kinds) /\ IsTable(members, Keys, Infos)
  /\ IsTable(structs, Names, BOOLEAN)
  /\ functionCounter \in Nat /\ currentFunc \in Types /\ errorNumber \in Nat
  /\ next \in 1..Len(file)+1 /\ ids \in Seq(Nat)
  /\ statement # 0 => /\ next \in DOMAIN file /\ file[next].decl = "function"
                      /\ statement \in 1..Len(file[next].body)+1
  /\ IsTable(notes, Nat \X Nat, [id : Nat, types : SUBSET Types])
  /\ prog.globals \in Seq(Names \X Types)
  /\ prog.functions \in Seq([id : Nat, retType : Types, code : Seq(Code)])

(* The compiler keeps its promise: it rejects the files it should, with    *)
(* functions known everywhere and the rest from its declaration on, and    *)
(* the IR of the others has every global once and every function under the *)
(* number its callers use (main, semanticAnalyses, Translate).             *)
Promise == INSTANCE CompilerPromise WITH
             prog <- IF verdict = "compiled" THEN prog ELSE NoOutput

KeepsPromise == Promise!Spec

(***************************************************************************)
(* What the declarations read so far say of a word: the first that claims  *)
(* it decides, an enum or a struct when it is finished, and a struct, with *)
(* its fields, for words that were no types.                               *)
(***************************************************************************)
Reading == Append(file, current)

ByField(k, w) == Reading[k].decl = "struct" /\ \E p \in DOMAIN Reading[k].parts :
                                                 Reading[k].parts[p].word = w
ByName(k, w)  == k \in DOMAIN file /\ file[k].decl \in {"enum", "struct"} /\ file[k].name = w

Claims(w) == {k \in DOMAIN Reading : ByField(k, w) \/ ByName(k, w)}

(* A word means what the first declaration that claims it says, and a      *)
(* built-in type is never redefined (typeTable in parse_enum and           *)
(* parse_struct).                                                          *)
TypesAsClaimed ==
  verdict # "undefined" =>
    /\ DOMAIN typeTable = DOMAIN builtinTypes \cup {w \in AllWords : Claims(w) # {}}
    /\ \A w \in DOMAIN typeTable :
         typeTable[w] = IF w \in DOMAIN builtinTypes THEN builtinTypes[w]
                        ELSE IF ByField(First(Claims(w)), w) THEN Untyped
                        ELSE Reading[First(Claims(w))].type

(* No struct is laid out with, and no frame has room for, a struct that    *)
(* the analyser has not got to: globalStructRegistery never holds a        *)
(* default entry (structSize, parse_struct).                               *)
StructsComplete == \A n \in DOMAIN structs : structs[n]

(* A value that needs two bytes is not given a backing type of one         *)
(* (max_value).                                                            *)
EnumValuesFit ==
  \A key \in DOMAIN members : members[key].kind = "UINT8" => members[key].value <= 255

=============================================================================
