---------------------------- MODULE Declarations ----------------------------
(***************************************************************************)
(* The top level of the parser: enums, structs, globals and functions, in  *)
(* the order of the file, and typeTable, which says of every word whether  *)
(* it names a type.  A word is looked up when it is read, so what a        *)
(* declaration means depends on what stands before it.                     *)
(*                                                                         *)
(* Statements are those of NebulaPrograms; default values of parameters    *)
(* and names of struct fields are left out.                                *)
(***************************************************************************)
EXTENDS NebulaPrograms

CONSTANTS
  NamesFor,   (* What is declared -> the names used for it.                *)
  WordsFor,   (* What has a type -> the words used for it.                 *)
  Sentences,  (* Statements used in functions.                             *)
  Initials,   (* Expressions used to initialise globals.                   *)
  Numbers,    (* Values an enum member is given.                           *)
  MaxFile,    (* Bound: declarations in a file.                            *)
  MaxParts    (* Bound: declarations, their members, fields, parameters    *)
              (* and statements, all together.                             *)

(* typeTable as type.cpp initialises it.                                   *)
builtinTypes ==
  [w \in {"int32", "uint32", "int64", "uint64", "int16", "uint16", "int8", "uint8",
          "float32", "float64", "vaddr", "paddr", "void"} |->
     Builtin(CASE w = "int32"   -> "INT32"   [] w = "uint32"  -> "UINT32"
               [] w = "int64"   -> "INT64"   [] w = "uint64"  -> "UINT64"
               [] w = "int16"   -> "INT16"   [] w = "uint16"  -> "UINT16"
               [] w = "int8"    -> "INT8"    [] w = "uint8"   -> "UINT8"
               [] w = "float32" -> "FLOAT32" [] w = "float64" -> "FLOAT64"
               [] w = "vaddr"   -> "VADDR"   [] w = "paddr"   -> "PADDR"
               [] w = "void"    -> "VOID")]

(* A word can be any token, the semicolon and the end of the file too.     *)
Semicolon == ";"
EndMark   == ""
AllWords  == DOMAIN builtinTypes \cup Names \cup {Semicolon, EndMark}

ASSUME DeclarationsAssumption ==
  /\ Names \cap {NoName, Semicolon} = {}
  /\ Names \cap DOMAIN builtinTypes = {}
  /\ NamesFor \in [{"enum", "struct", "variable", "function", "parameter"} -> SUBSET Names]
  /\ WordsFor \in [{"field", "variable", "function", "parameter"} ->
                     SUBSET (AllWords \ {EndMark})]
  /\ Sentences \subseteq Statements /\ Initials \subseteq Simple \cup Calls
  /\ Numbers \subseteq Nat    (* a minus sign is a token of its own *)
  /\ MaxFile \in Nat /\ MaxParts \in Nat

VARIABLES
  stage,      (* what is being read, and later which pass runs             *)
  verdict,    (* how the compiler ended                                    *)
  typeTable,
  file,       (* the declarations read                                     *)
  current,    (* the one being read                                        *)
  counter,    (* i of parse_enum                                           *)
  ahead,      (* the next token is the semicolon of a prototype            *)
  parts       (* history: what MaxParts bounds                             *)

parser == <<typeTable, file, current, counter, ahead, parts>>

NoDeclaration == Declaration("none", NoName, Untyped)
EnumType(n)   == [kind |-> "ENUM", name |-> n]
StructType(n) == [kind |-> "STRUCT", name |-> n]

ParserInit ==
  /\ stage = "root" /\ verdict = "none"
  /\ typeTable = builtinTypes
  /\ file = <<>> /\ current = NoDeclaration
  /\ counter = 0 /\ ahead = FALSE /\ parts = 0

Count == parts < MaxParts /\ parts' = parts + 1

(* A part is added to the declaration being read.                          *)
Add(part) == current' = [current EXCEPT !.parts = Append(@, part)]

(* A declaration is finished.                                              *)
Push(declaration) ==
  /\ file' = Append(file, declaration)
  /\ current' = NoDeclaration
  /\ stage' = "root"

Open(declaration, at) ==
  /\ stage = "root" /\ Len(file) < MaxFile
  /\ Count
  /\ current' = declaration
  /\ stage' = at
  /\ UNCHANGED <<verdict, typeTable, file>>

-----------------------------------------------------------------------------
(***************************************************************************)
(* Enums.  A member without a value continues the count.                   *)
(***************************************************************************)
BeginEnum(n) ==
  /\ ~ahead
  /\ Open(Declaration("enum", n, EnumType(n)), "enum")
  /\ counter' = 0
  /\ UNCHANGED ahead

EnumMember(m, value) ==
  /\ stage = "enum"
  /\ Count
  /\ Add(Enumerator(m, value))
  /\ counter' = value + 1
  /\ UNCHANGED <<stage, verdict, typeTable, file, ahead>>

(* stoi throws when the token after = is not a number.                     *)
EnumValueNoNumber ==
  /\ stage = "enum"
  /\ verdict' = "threw" /\ stage' = "ended"
  /\ UNCHANGED parser

(* Mutant: the last of a name counts.                                      *)
EndEnumAgain ==
  /\ stage = "enum"
  /\ typeTable' = insert_or_assign(typeTable, {current.name}, EnumType(current.name))
  /\ Push(current)
  /\ UNCHANGED <<verdict, counter, ahead, parts>>

(* The name becomes a type when the enum has been read.                    *)
EndEnum ==
  /\ stage = "enum"
  /\ typeTable' = emplace(typeTable, {current.name}, EnumType(current.name))
  /\ Push(current)
  /\ UNCHANGED <<verdict, counter, ahead, parts>>

-----------------------------------------------------------------------------
(***************************************************************************)
(* Structs.  The word in front of a field is looked up with operator[]:    *)
(* one that is no type is one from then on.                                *)
(***************************************************************************)
wordType(w) == IF w \in DOMAIN typeTable THEN typeTable[w] ELSE Untyped

(* Mutant: the name is a type already in its own fields.                   *)
BeginStructNamed(n) ==
  /\ ~ahead
  /\ stage = "root" /\ Len(file) < MaxFile
  /\ Count
  /\ typeTable' = emplace(typeTable, {n}, StructType(n))
  /\ current' = Declaration("struct", n, StructType(n))
  /\ stage' = "struct"
  /\ UNCHANGED <<verdict, file, counter, ahead>>

BeginStruct(n) ==
  /\ ~ahead
  /\ Open(Declaration("struct", n, StructType(n)), "struct")
  /\ UNCHANGED <<counter, ahead>>

StructField(w) ==
  /\ stage = "struct"
  /\ Count
  /\ typeTable' = emplace(typeTable, {w}, Untyped)
  /\ Add(Field(w, wordType(w)))
  /\ UNCHANGED <<stage, verdict, file, counter, ahead>>

EndStruct ==
  /\ stage = "struct"
  /\ typeTable' = emplace(typeTable, {current.name}, StructType(current.name))
  /\ Push(current)
  /\ UNCHANGED <<verdict, counter, ahead, parts>>

(* At the end of the file the token for it is taken for the type of a      *)
(* field and consumed: the next look is behind the tokens.                 *)
RunOffEnd ==
  /\ stage = "struct"
  /\ typeTable' = emplace(typeTable, {EndMark}, Untyped)
  /\ verdict' = "undefined" /\ stage' = "ended"
  /\ UNCHANGED <<file, current, counter, ahead, parts>>

-----------------------------------------------------------------------------
(***************************************************************************)
(* Variables and functions start with a word that is a type.               *)
(***************************************************************************)
StartsWith(w) == (ahead => w = Semicolon) /\ w \in DOMAIN typeTable

(* body: nothing or the initialiser.                                       *)
Global(w, n, body) ==
  /\ stage = "root" /\ StartsWith(w) /\ Len(file) < MaxFile
  /\ Count
  /\ Push([Declaration("variable", n, typeTable[w]) EXCEPT !.body = body])
  /\ ahead' = FALSE
  /\ UNCHANGED <<verdict, typeTable, counter>>

BeginFunction(w, n) ==
  /\ StartsWith(w)
  /\ Open(Declaration("function", n, typeTable[w]), "parameters")
  /\ ahead' = FALSE
  /\ UNCHANGED counter

FunctionParameter(w, n) ==
  /\ stage = "parameters" /\ w \in DOMAIN typeTable
  /\ Count
  /\ Add(Parameter(n, typeTable[w]))
  /\ UNCHANGED <<stage, verdict, typeTable, file, counter, ahead>>

BeginBody ==
  /\ stage = "parameters"
  /\ stage' = "body"
  /\ current' = [current EXCEPT !.defined = TRUE]
  /\ UNCHANGED <<verdict, typeTable, file, counter, ahead, parts>>

(* A sentence that starts with a word that is a type declares a local.     *)
Sentence(s) ==
  /\ stage = "body"
  /\ s.stmt = "call" => s.value.name \notin DOMAIN typeTable
  /\ Count
  /\ current' = [current EXCEPT !.body = Append(@, s)]
  /\ UNCHANGED <<stage, verdict, typeTable, file, counter, ahead>>

EndFunction ==
  /\ stage = "body"
  /\ Push(current)
  /\ UNCHANGED <<verdict, typeTable, counter, ahead, parts>>

(* The semicolon of a function without a body is looked at and left.       *)
Prototype ==
  /\ stage = "parameters"
  /\ Push(current)
  /\ ahead' = TRUE
  /\ UNCHANGED <<verdict, typeTable, counter, parts>>

-----------------------------------------------------------------------------
ParserStages == {"root", "enum", "struct", "parameters", "body"}

(* Any other token is a syntax error: print_error exits.                   *)
Refuse ==
  /\ stage \in ParserStages
  /\ verdict' = "refused" /\ stage' = "ended"
  /\ UNCHANGED parser

EndOfFile ==
  /\ stage = "root" /\ ~ahead
  /\ stage' = "register"
  /\ UNCHANGED <<verdict, parser>>

ParserNext ==
  \/ \E n \in NamesFor["enum"] : BeginEnum(n)
  \/ \E m \in Members, value \in Numbers \cup {counter} : EnumMember(m, value)
  \/ EnumValueNoNumber \/ EndEnum
  \/ \E n \in NamesFor["struct"] : BeginStruct(n)
  \/ \E w \in WordsFor["field"] : StructField(w)
  \/ EndStruct \/ RunOffEnd
  \/ \E w \in WordsFor["variable"], n \in NamesFor["variable"] :
       Global(w, n, <<>>) \/ \E e \in Initials : Global(w, n, <<Statement("init", e)>>)
  \/ \E w \in WordsFor["function"], n \in NamesFor["function"] : BeginFunction(w, n)
  \/ \E w \in WordsFor["parameter"], n \in NamesFor["parameter"] : FunctionParameter(w, n)
  \/ BeginBody
  \/ \E s \in Sentences : Sentence(s)
  \/ EndFunction \/ Prototype \/ Refuse \/ EndOfFile

=============================================================================
