----------------------------- MODULE FlowGraph -----------------------------
(***************************************************************************)
(* The control flow the IR translator gives a function, next to what       *)
(* Semantic::hasReturn says of the same function.                          *)
(*                                                                         *)
(* The translator walks the statements of a function and appends           *)
(* instructions to currentBlock; an if statement makes it start new        *)
(* blocks.  Only jumps and returns are kept of a block's instructions.     *)
(* hasReturn is the analyser's; its result on the part of each open        *)
(* statement that has been visited is in the stack of SourceWalk.          *)
(***************************************************************************)
EXTENDS SourceWalk, FiniteSets

VARIABLES
  ids,           (* currentCounter of each open statement, 0 if not an if  *)
  blocks,        (* currentFunc->blocks                                    *)
  currentBlock,  (* the block appended to, by its position; 0: nullptr     *)
  blockCounter,
  program        (* prog.functions, and whether each returns void           *)

irVars == <<ids, blocks, currentBlock, blockCounter, program>>
vars   == <<open, nodes, ids, blocks, currentBlock, blockCounter, program>>

-----------------------------------------------------------------------------
Label(kind, id)  == [kind |-> kind, id |-> id]
Inst(op, target) == [op |-> op, target |-> target]
NoLabel          == Label("NONE", 0)
Block(label)     == [label |-> label, code |-> <<>>]

TopId    == ids[Len(ids)]
OuterIds == SubSeq(ids, 1, Len(ids) - 1)

(* emitJE, emitJMP and emitReturn append to currentBlock.                  *)
Emit(code) == [blocks EXCEPT ![currentBlock].code = @ \o code]

(* func.blocks.emplace_back() in a function that has the blocks bs already *)
Start(bs, label) ==
  /\ blocks' = Append(bs, Block(label))
  /\ currentBlock' = Len(bs) + 1

-----------------------------------------------------------------------------
Init ==
  /\ WalkInit
  /\ ids = <<>>
  /\ blocks = <<>>
  /\ currentBlock = 0
  /\ blockCounter = 0
  /\ program = <<>>

(* A global, an enum or a struct: nothing is emitted for its node.         *)
TopLevel == VisitTopLevel /\ UNCHANGED irVars

(* TranslateStmt(FuncStmtNode), up to its body.                            *)
BeginFunction ==
  /\ OpenFunction
  /\ Start(<<>>, Label("ENTRY", 0))
  /\ ids' = <<0>>
  /\ UNCHANGED <<blockCounter, program>>

(* Any statement but a block, an if or a return.                           *)
Statement == VisitStatement(FALSE) /\ UNCHANGED irVars

Return ==
  /\ VisitStatement(TRUE)
  /\ blocks' = Emit(<<Inst("RET", NoLabel)>>)
  /\ UNCHANGED <<ids, currentBlock, blockCounter, program>>

BeginBlock ==
  /\ OpenBlock
  /\ ids' = Append(ids, 0)
  /\ UNCHANGED <<blocks, currentBlock, blockCounter, program>>

EndBlock ==
  /\ CloseBlock
  /\ ids' = OuterIds
  /\ UNCHANGED <<blocks, currentBlock, blockCounter, program>>

(* Mutant: the counter is not advanced until the statement is finished.    *)
BeginIfSharedCounter(hasElse) ==
  LET id == blockCounter
  IN  /\ OpenIf(hasElse)
      /\ Start(Emit(<<Inst("JZ", Label("IF", id)),
                      Inst("JMP", Label(IF hasElse THEN "ELSE" ELSE "ENDIF", id))>>),
               Label("IF", id))
      /\ ids' = Append(ids, id)
      /\ UNCHANGED <<blockCounter, program>>

(* Mutant: the branch not taken always goes to an else block.              *)
BeginIfAlwaysElse(hasElse) ==
  LET id == blockCounter
  IN  /\ OpenIf(hasElse)
      /\ Start(Emit(<<Inst("JZ", Label("IF", id)), Inst("JMP", Label("ELSE", id))>>),
               Label("IF", id))
      /\ ids' = Append(ids, id)
      /\ blockCounter' = blockCounter + 1
      /\ UNCHANGED program

(* TranslateStmt(IfStmtNode), up to its first branch.  The condition's     *)
(* instructions are in the block the jumps end.                            *)
BeginIf(hasElse) ==
  LET id == blockCounter
  IN  /\ OpenIf(hasElse)
      /\ Start(Emit(<<Inst("JZ", Label("IF", id)),
                      Inst("JMP", Label(IF hasElse THEN "ELSE" ELSE "ENDIF", id))>>),
               Label("IF", id))
      /\ ids' = Append(ids, id)
      /\ blockCounter' = blockCounter + 1
      /\ UNCHANGED program

(* Mutant: no jump over the else block.                                    *)
BeginElseFallsThrough ==
  LET id == TopId
  IN  /\ OpenElse
      /\ Start(blocks, Label("ELSE", id))
      /\ UNCHANGED <<ids, blockCounter, program>>

(* Between the branches.                                                   *)
BeginElse ==
  LET id == TopId
  IN  /\ OpenElse
      /\ Start(Emit(<<Inst("JMP", Label("ENDIF", id))>>), Label("ELSE", id))
      /\ UNCHANGED <<ids, blockCounter, program>>

(* Mutant: currentBlock stays in the branch.                               *)
EndIfKeepsBlock ==
  LET id == TopId
  IN  /\ CloseIf
      /\ blocks' = Append(Emit(<<Inst("JMP", Label("ENDIF", id))>>),
                          Block(Label("ENDIF", id)))
      /\ ids' = OuterIds
      /\ blockCounter' = blockCounter + 1
      /\ UNCHANGED <<currentBlock, program>>

(* Mutant: the finished statement's number stays on the stack.             *)
EndIfKeepsId ==
  LET id == TopId
  IN  /\ CloseIf
      /\ Start(Emit(<<Inst("JMP", Label("ENDIF", id))>>), Label("ENDIF", id))
      /\ blockCounter' = blockCounter + 1
      /\ UNCHANGED <<ids, program>>

(* After the last branch.                                                  *)
EndIf ==
  LET id == TopId
  IN  /\ CloseIf
      /\ Start(Emit(<<Inst("JMP", Label("ENDIF", id))>>), Label("ENDIF", id))
      /\ ids' = OuterIds
      /\ blockCounter' = blockCounter + 1
      /\ UNCHANGED program

(* The end of TranslateStmt(FuncStmtNode).  The analyser has refused the   *)
(* program before if the function's return type is not void and hasReturn  *)
(* said no: only the others get here.                                      *)
EndFunction(isVoid) ==
  /\ CloseFunction
  /\ Top.has \/ isVoid
  /\ program' = Append(program, [isVoid |-> isVoid, blocks |-> blocks])
  /\ blocks' = <<>>
  /\ currentBlock' = 0
  /\ ids' = <<>>
  /\ UNCHANGED blockCounter

Done == WalkDone /\ UNCHANGED vars

Next ==
  \/ TopLevel
  \/ BeginFunction
  \/ Statement
  \/ Return
  \/ BeginBlock
  \/ EndBlock
  \/ \E hasElse \in BOOLEAN : BeginIf(hasElse)
  \/ BeginElse
  \/ EndIf
  \/ \E isVoid \in BOOLEAN : EndFunction(isVoid)
  \/ Done

Spec == Init /\ [][Next]_vars

-----------------------------------------------------------------------------
(***************************************************************************)
(* The graph of a list of blocks.                                          *)
(***************************************************************************)
Jumps(code) == {code[i] : i \in {j \in DOMAIN code : code[j].op # "RET"}}

(* The instructions that can be executed: those up to the first JMP or RET *)
Executed(code) == {i \in DOMAIN code : \A j \in 1..i-1 : code[j].op = "JZ"}

(* Control runs off the end of the block.                                  *)
RunsOff(code) == \A i \in DOMAIN code : code[i].op = "JZ"

(* Where control can go from a block: to labels, or on to what follows it. *)
Follows == NoLabel

Leaves(code) ==
  {code[k].target : k \in {j \in Executed(code) : code[j].op # "RET"}}
    \cup (IF RunsOff(code) THEN {Follows} ELSE {})

(* Where control can go from a list of blocks it enters at the first one.  *)
(* Every jump goes to a later block (JumpsResolve), so one pass in order   *)
(* finds every block that is entered.                                      *)
Exits(bs) ==
  LET Through(before, block) ==
        IF {Follows, block.label} \cap before = {} THEN before
        ELSE (before \ {Follows}) \cup Leaves(block.code)
      exits[i \in 0..Len(bs)] ==
        IF i = 0 THEN {Follows}
        ELSE UNION {Through(before, bs[i]) : before \in {exits[i-1]}}
  IN  exits[Len(bs)]

(* Control can come to the end of the blocks.                              *)
FallsOff(bs) == Follows \in Exits(bs)

-----------------------------------------------------------------------------
(***************************************************************************)
(* Properties.                                                             *)
(***************************************************************************)
Labels == [kind : {"ENTRY", "IF", "ELSE", "ENDIF", "NONE"}, id : Nat]

BlockSet == [label : Labels, code : Seq([op : {"JZ", "JMP", "RET"}, target : Labels])]

TypeOK ==
  /\ open \in Seq(Frames)
  /\ nodes \in 0..MaxNodes
  /\ ids \in Seq(Nat)
  /\ Len(ids) = Len(open)
  /\ blocks \in Seq(BlockSet)
  /\ currentBlock \in 0..Len(blocks)
  /\ blockCounter \in Nat
  /\ program \in Seq([isVoid : BOOLEAN, blocks : Seq(BlockSet)])

(* The pointer the emit functions write through is never a stale one: each *)
(* emplace_back may move the blocks, and only the pointer to the newest    *)
(* one is taken again after it (TranslateStmt(IfStmtNode)).                *)
CurrentBlockNewest ==
  /\ currentBlock = Len(blocks)
  /\ (currentBlock = 0) <=> (open = <<>>)

(* No function has two blocks of one label, however its if statements are  *)
(* nested: a label names a jump's target (blockCounter).                   *)
DistinctLabels(bs) == \A i, j \in DOMAIN bs : i # j => bs[i].label # bs[j].label

LabelsUnique ==
  /\ DistinctLabels(blocks)
  /\ \A p \in DOMAIN program : DistinctLabels(program[p].blocks)

(* Every jump of a translated function goes to one of its blocks, a later  *)
(* one: there is no other way to loop than a call (emitJE, emitJMP).       *)
JumpsResolve ==
  \A p \in DOMAIN program : \A i \in DOMAIN program[p].blocks :
    \A inst \in Jumps(program[p].blocks[i].code) :
      \E j \in DOMAIN program[p].blocks :
        j > i /\ program[p].blocks[j].label = inst.target

(* No block but the last runs into the block that happens to be stored     *)
(* after it: each arm of an if leaves by a jump or a return.               *)
NoFallThrough ==
  \A p \in DOMAIN program : \A i \in 1..Len(program[p].blocks)-1 :
    ~RunsOff(program[p].blocks[i].code)

(* hasReturn agrees with the graph: while a function is translated, the    *)
(* place instructions are appended to can be reached exactly when no open  *)
(* statement is already known to return.                                   *)
ReachableIffNoReturn ==
  open # <<>> => (FallsOff(blocks) <=> \A i \in DOMAIN open : ~open[i].has)

(* In a program the analyser accepted, control never runs off the end of a *)
(* function that is to return a value (hasReturn, the check that follows   *)
(* it, and TranslateStmt).                                                 *)
ValuesReturned ==
  \A p \in DOMAIN program : ~program[p].isVoid => ~FallsOff(program[p].blocks)

-----------------------------------------------------------------------------
(***************************************************************************)
(* The blocks mean the statements they were made from.                     *)
(***************************************************************************)

(* The places of the if statements of a stack, outermost first.            *)
Ifs(stack) ==
  LET ifs[k \in 0..Len(stack)] ==
        IF k = 0 THEN <<>>
        ELSE IF stack[k].node \in {"if", "else"} THEN Append(ifs[k-1], k)
        ELSE ifs[k-1]
  IN  ifs[Len(stack)]

(* What the blocks say of the if statement at depth k.                     *)
Waits(k) ==
  [second  |-> open[k].node = "if" /\ open[k].tight,
   entered |-> Label("ELSE", ids[k]) \in Exits(blocks),
   joined  |-> Label("ENDIF", ids[k]) \in Exits(blocks)]

Live    == open # <<>> /\ FallsOff(blocks)
Waiting == [i \in DOMAIN Ifs(open) |-> Waits(Ifs(open)[i])]
Voids   == [p \in DOMAIN program |-> program[p].isVoid]

Promised == INSTANCE StructuredFlow WITH
  live <- Live, waiting <- Waiting, functions <- Voids

(* The graph implements the control flow of the source: each label is      *)
(* entered, and each place reached, exactly when the statements say so,    *)
(* and a function that ends without a value is void (TranslateStmt).       *)
StructuredProgram == Promised!Spec

=============================================================================
