--------------------------- MODULE CompilerPromise ---------------------------
(***************************************************************************)
(* What the compiler promises about a file, without passes: which files it *)
(* rejects, and what the IR of the others contains.  The tables of this    *)
(* module are read off the file: a function is known everywhere, anything  *)
(* else from its declaration on, and the first of a name counts.           *)
(*                                                                         *)
(* Compiler implements this specification.                                 *)
(***************************************************************************)
EXTENDS NebulaPrograms

VARIABLES
  file,       (* the declarations read                                     *)
  verdict,
  prog        (* the IR that is printed                                    *)

vars == <<file, verdict, prog>>

NoOutput == [globals |-> <<>>, functions |-> <<>>]

-----------------------------------------------------------------------------
(***************************************************************************)
(* The tables for the i-th declaration.                                    *)
(***************************************************************************)
Are(decl)       == {k \in DOMAIN file : file[k].decl = decl}
Of(decl, n)     == {k \in Are(decl) : file[k].name = n}
Upto(i, S)      == {k \in S : k <= i}
NamesOf(S)      == {file[k].name : k \in S}

(* The number of the function that is the k-th declaration.                *)
Id(k) == Cardinality(Upto(k - 1, Are("function")))

Functions ==
  [f \in NamesOf(Are("function")) |->
     LET k == First(Of("function", f)) IN FunctionInfo(file[k], Id(k))]

Globals(i) ==
  [n \in NamesOf(Upto(i, Are("variable"))) |-> file[First(Of("variable", n))].type]

Enums(i) ==
  [e \in NamesOf(Upto(i, Are("enum"))) |-> BackingKind(file[First(Of("enum", e))])]

Declaring(key) == {k \in Of("enum", key[1]) : key[2] \in NamesIn(file[k].parts)}

EnumMembers(i) ==
  [key \in {pair \in Names \X Members : Upto(i, Declaring(pair)) # {}} |->
     LET enum == file[First(Declaring(key))]
     IN  MemberInfo(FirstNamed(enum.parts, key[2]).value, BackingKind(enum))]

(* A function sees its parameters; an initialiser sees no variable.        *)
Tables(i) ==
  [functions |-> Functions, globals |-> Globals(i), enums |-> Enums(i),
   members |-> EnumMembers(i),
   parameters |-> IF file[i].decl = "function" THEN Bound(file[i]) ELSE <<>>,
   scoped |-> file[i].decl = "function"]

(* Values returned are converted to what calls expect.                     *)
Wanted(i) ==
  IF file[i].decl = "function" THEN Functions[file[i].name].retType ELSE file[i].type

-----------------------------------------------------------------------------
(***************************************************************************)
(* Which files are accepted.                                               *)
(***************************************************************************)
Right(i) ==
  /\ \A j \in DOMAIN file[i].body : StatementErrors(Tables(i), file[i].body[j], Wanted(i)) = {}
  /\ file[i].decl = "function" /\ file[i].type.kind # "VOID" => hasReturn(file[i].body)

(* An enum, or a member of one, is used by the check of a call before it   *)
(* is declared: nothing is promised about such a file.                     *)
UsesEnumAhead ==
  \E i \in DOMAIN file : \E j \in DOMAIN file[i].body :
    LET s == file[i].body[j]
    IN  \/ ~(EnumsLookedUp(Tables(i), s, Wanted(i)) \subseteq DOMAIN Enums(i))
        \/ ~(MembersLookedUp(Tables(i), s) \subseteq DOMAIN EnumMembers(i))

(* Variables and results of functions cannot be enums in the IR.           *)
UsesEnumType ==
  \E i \in DOMAIN file :
    \/ file[i].decl \in {"variable", "function"} /\ file[i].type.kind = "ENUM"
    \/ /\ file[i].decl = "function"
       /\ \E j \in DOMAIN file[i].body :
            \E t \in TypesTranslated(Tables(i), file[i].body[j], Wanted(i)) : t.kind = "ENUM"

(* Every global once, with its first type.                                 *)
GlobalsRight(output) ==
  /\ {output.globals[g] : g \in DOMAIN output.globals} =
       {<<n, Globals(Len(file))[n]>> : n \in NamesOf(Are("variable"))}
  /\ Len(output.globals) = Cardinality(NamesOf(Are("variable")))

Callee(s) == IF s.value.node = "call" THEN Functions[s.value.name].id ELSE 0

(* Every function at its own number, calling others by theirs.             *)
FunctionsRight(output) ==
  /\ Len(output.functions) = Cardinality(Are("function"))
  /\ \A k \in Are("function") :
       output.functions[Id(k) + 1] =
         [id      |-> Id(k),
          retType |-> file[k].type,
          code    |-> [j \in DOMAIN file[k].body |->
             Instruction(EnumMembers(Len(file)), file[k].body[j], Callee(file[k].body[j]))]]

-----------------------------------------------------------------------------
Init == file = <<>> /\ verdict = "none" /\ prog = NoOutput

Read ==
  /\ verdict = "none"
  /\ Len(file') = Len(file) + 1
  /\ SubSeq(file', 1, Len(file)) = file
  /\ UNCHANGED <<verdict, prog>>

(* The text is no program, or the parser does not get over it.             *)
Refuse ==
  /\ verdict = "none"
  /\ verdict' \in {"refused", "threw", "undefined"}
  /\ UNCHANGED <<file, prog>>

Reject ==
  /\ verdict = "none"
  /\ UsesEnumAhead \/ \E i \in DOMAIN file : ~Right(i)
  /\ verdict' = "rejected"
  /\ UNCHANGED <<file, prog>>

(* A function without a body is not compiled.                              *)
NullCode ==
  /\ verdict = "none"
  /\ \E k \in Are("function") : ~file[k].defined
  /\ verdict' = "null code"
  /\ UNCHANGED <<file, prog>>

Fail ==
  /\ verdict = "none"
  /\ UsesEnumAhead \/ \A i \in DOMAIN file : Right(i)
  /\ UsesEnumAhead \/ UsesEnumType
  /\ verdict' = "unsupported"
  /\ UNCHANGED <<file, prog>>

Compile ==
  /\ verdict = "none"
  /\ \/ UsesEnumAhead
     \/ /\ \A i \in DOMAIN file : Right(i)
        /\ ~UsesEnumType
        /\ GlobalsRight(prog') /\ FunctionsRight(prog')
  /\ verdict' = "compiled"
  /\ UNCHANGED file

Next == Read \/ Refuse \/ Reject \/ NullCode \/ Fail \/ Compile

Spec == Init /\ [][Next]_vars

=============================================================================
