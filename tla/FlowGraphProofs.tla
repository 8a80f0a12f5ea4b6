-------------------------- MODULE FlowGraphProofs --------------------------
(***************************************************************************)
(* Theorems about the control flow graph, for programs of any size.        *)
(***************************************************************************)
EXTENDS FlowGraph, SourceWalkProofs, FiniteSetTheorems, WellFoundedInduction

CodeSet == Seq([op : {"JZ", "JMP", "RET"}, target : Labels])

IsIf(k) == open[k].node \in {"if", "else"}

Typed ==
  /\ WalkInv
  /\ ids \in Seq(Nat)
  /\ Len(ids) = Len(open)
  /\ blocks \in Seq(BlockSet)
  /\ currentBlock = Len(blocks)
  /\ (open = <<>>) => (blocks = <<>>)
  /\ (open # <<>>) => (Len(blocks) > 0)
  /\ blockCounter \in Nat
  /\ program \in Seq([isVoid : BOOLEAN, blocks : Seq(BlockSet)])

(* The jumps to this label are made, its block is not there yet: it is the *)
(* end of an open if statement, or its second branch.                      *)
PendingIn(stack, numbers, target) ==
  \E k \in DOMAIN stack :
    \/ stack[k].node \in {"if", "else"} /\ target = Label("ENDIF", numbers[k])
    \/ stack[k].node = "if" /\ stack[k].tight /\ target = Label("ELSE", numbers[k])

Pending(target) == PendingIn(open, ids, target)

(* Numbers in use are below the counter, no two open statements share one. *)
IdsFresh ==
  /\ \A k \in DOMAIN open : IsIf(k) => ids[k] < blockCounter
  /\ \A k, l \in DOMAIN open : IsIf(k) /\ IsIf(l) /\ k # l => ids[k] # ids[l]

(* A label that is still to come is on no block.                           *)
LabelsFresh ==
  /\ \A i \in DOMAIN blocks : blocks[i].label.kind = "ENTRY" => i = 1
  /\ \A i \in DOMAIN blocks : blocks[i].label.kind # "ENTRY" => blocks[i].label.id < blockCounter
  /\ \A i \in DOMAIN blocks : ~Pending(blocks[i].label)
  /\ DistinctLabels(blocks)

Resolved(bs, i, target) == \E j \in DOMAIN bs : j > i /\ bs[j].label = target

JumpsGo ==
  \A i \in DOMAIN blocks : \A inst \in Jumps(blocks[i].code) :
    Pending(inst.target) \/ Resolved(blocks, i, inst.target)

BlocksLeft == \A i \in 1..Len(blocks)-1 : ~RunsOff(blocks[i].code)

(* A finished function's labels differ, its jumps go to later blocks, and  *)
(* only its last block can be left at the end.                             *)
Finished(bs) ==
  /\ DistinctLabels(bs)
  /\ \A i \in DOMAIN bs : \A inst \in Jumps(bs[i].code) : Resolved(bs, i, inst.target)
  /\ \A i \in 1..Len(bs)-1 : ~RunsOff(bs[i].code)

ProgramFinished == \A p \in DOMAIN program : Finished(program[p].blocks)

IInv ==
  /\ Typed
  /\ IdsFresh
  /\ LabelsFresh
  /\ JumpsGo
  /\ BlocksLeft
  /\ ProgramFinished

-----------------------------------------------------------------------------
(***************************************************************************)
(* Code and blocks.                                                        *)
(***************************************************************************)

(* Two labels are the same only if their numbers are.                      *)
LEMMA LabelFacts ==
  \A k1, k2, n1, n2 :
    /\ Label(k1, n1).kind = k1 /\ Label(k1, n1).id = n1
    /\ Label(k1, n1) = Label(k2, n2) => k1 = k2 /\ n1 = n2
<1>1. ASSUME NEW k1, NEW k2, NEW n1, NEW n2
      PROVE  /\ Label(k1, n1).kind = k1 /\ Label(k1, n1).id = n1
             /\ Label(k2, n2).kind = k2 /\ Label(k2, n2).id = n2
  BY DEF Label
<1> QED BY <1>1

(* What follows a branch has the jumps of both parts and no others.        *)
LEMMA JumpsOfConcat ==
  ASSUME NEW c \in CodeSet, NEW d \in CodeSet
  PROVE  /\ c \o d \in CodeSet
         /\ Jumps(c \o d) \subseteq Jumps(c) \cup Jumps(d)
         /\ ~RunsOff(d) => ~RunsOff(c \o d)
<1>1. /\ c \o d \in CodeSet
      /\ Len(c \o d) = Len(c) + Len(d)
      /\ \A i \in 1..Len(c) + Len(d) : (c \o d)[i] = IF i <= Len(c) THEN c[i] ELSE d[i - Len(c)]
  BY DEF CodeSet
<1> DEFINE e == c \o d
<1>2. /\ e \in CodeSet /\ Len(e) = Len(c) + Len(d) /\ Len(c) \in Nat /\ Len(d) \in Nat
      /\ DOMAIN e = 1..Len(e) /\ DOMAIN c = 1..Len(c) /\ DOMAIN d = 1..Len(d)
      /\ \A i \in 1..Len(c) : e[i] = c[i]
      /\ \A i \in 1..Len(d) : e[Len(c) + i] = d[i]
      /\ \A i \in 1..Len(e) : i \in 1..Len(c) \/ (i - Len(c) \in 1..Len(d) /\ e[i] = d[i - Len(c)])
  BY <1>1 DEF CodeSet
<1> HIDE DEF e
<1>3. ASSUME NEW x \in Jumps(e) PROVE x \in Jumps(c) \cup Jumps(d)
  <2>1. PICK i \in 1..Len(e) : e[i].op # "RET" /\ x = e[i]
    BY <1>2, <1>3 DEF Jumps
  <2>2. CASE i \in 1..Len(c)
    BY <1>2, <2>1, <2>2 DEF Jumps
  <2>3. CASE i \notin 1..Len(c)
    <3>1. i - Len(c) \in DOMAIN d /\ e[i] = d[i - Len(c)]
      BY <1>2, <2>1, <2>3
    <3> QED BY <2>1, <3>1 DEF Jumps
  <2> QED BY <2>2, <2>3
<1>4. ASSUME ~RunsOff(d) PROVE ~RunsOff(e)
  <2>1. PICK i \in 1..Len(d) : d[i].op # "JZ"
    BY <1>2, <1>4 DEF RunsOff
  <2>2. Len(c) + i \in DOMAIN e /\ e[Len(c) + i].op # "JZ"
    BY <1>2, <2>1
  <2> QED BY <2>2 DEF RunsOff
<1> QED BY <1>2, <1>3, <1>4 DEF e

(* The blocks before an instruction is appended, and after.                *)
LEMMA EmitFacts ==
  ASSUME Typed, open # <<>>, NEW code \in CodeSet
  PROVE  /\ Emit(code) \in Seq(BlockSet)
         /\ Len(Emit(code)) = Len(blocks)
         /\ Len(blocks) \in Nat \ {0}
         /\ \A i \in 1..Len(blocks) : Emit(code)[i].label = blocks[i].label
         /\ \A i \in 1..Len(blocks)-1 : Emit(code)[i].code = blocks[i].code
         /\ Emit(code)[Len(blocks)].code = blocks[Len(blocks)].code \o code
<1> DEFINE n == Len(blocks)
<1>1. n \in Nat /\ n > 0 /\ blocks \in Seq(BlockSet) /\ blocks[n] \in BlockSet
  BY DEF Typed
<1>2. Emit(code) = [blocks EXCEPT ![n].code = @ \o code]
  BY DEF Typed, Emit
<1>3. blocks[n].code \o code \in CodeSet
  BY <1>1, JumpsOfConcat DEF BlockSet, CodeSet
<1> DEFINE b == [blocks[n] EXCEPT !.code = @ \o code]
<1>4. b \in BlockSet /\ b.label = blocks[n].label /\ b.code = blocks[n].code \o code
  BY <1>1, <1>3 DEF BlockSet, CodeSet
<1>5. Emit(code) = [blocks EXCEPT ![n] = b]
  BY <1>2
<1> HIDE DEF b
<1> QED BY <1>1, <1>4, <1>5

(* code ends the current block and a block of this label is the next one.  *)
Extended(code, label) ==
  /\ blocks' \in Seq(BlockSet)
  /\ Len(blocks') = Len(blocks) + 1
  /\ currentBlock' = Len(blocks')
  /\ \A i \in 1..Len(blocks) : blocks'[i].label = blocks[i].label
  /\ \A i \in 1..Len(blocks)-1 : blocks'[i].code = blocks[i].code
  /\ Jumps(blocks'[Len(blocks)].code) \subseteq Jumps(blocks[Len(blocks)].code) \cup Jumps(code)
  /\ ~RunsOff(blocks'[Len(blocks)].code)
  /\ blocks'[Len(blocks) + 1].label = label
  /\ Jumps(blocks'[Len(blocks) + 1].code) = {}

LEMMA ExtendFacts ==
  ASSUME Typed, open # <<>>, NEW code \in CodeSet, NEW label \in Labels,
         ~RunsOff(code), Start(Emit(code), label)
  PROVE  Extended(code, label) /\ Len(blocks) \in Nat \ {0}
<1> DEFINE n == Len(blocks)
           bs == Emit(code)
<1>1. /\ bs \in Seq(BlockSet) /\ Len(bs) = n /\ n \in Nat \ {0}
      /\ \A i \in 1..n : bs[i].label = blocks[i].label
      /\ \A i \in 1..n-1 : bs[i].code = blocks[i].code
      /\ bs[n].code = blocks[n].code \o code
  BY EmitFacts
<1>2. blocks[n].code \in CodeSet
  <2>1. blocks \in Seq(BlockSet) /\ n \in 1..Len(blocks)
    BY <1>1 DEF Typed
  <2>2. blocks[n] \in BlockSet
    BY <2>1
  <2> QED BY <2>2 DEF BlockSet, CodeSet
<1>3. /\ Jumps(bs[n].code) \subseteq Jumps(blocks[n].code) \cup Jumps(code)
      /\ ~RunsOff(bs[n].code)
  BY <1>1, <1>2, JumpsOfConcat
<1>4. blocks' = Append(bs, Block(label)) /\ currentBlock' = Len(bs) + 1
  BY DEF Start
<1> HIDE DEF bs
<1>5. Block(label) \in BlockSet /\ Block(label).label = label /\ Jumps(Block(label).code) = {}
  BY DEF Block, BlockSet, Jumps
<1> HIDE DEF n
<1>6. /\ blocks' \in Seq(BlockSet) /\ Len(blocks') = n + 1
      /\ \A i \in 1..n : blocks'[i] = bs[i]
      /\ blocks'[n + 1] = Block(label)
  BY <1>1, <1>4, <1>5
<1>7. n \in 1..n /\ \A i \in 1..n-1 : i \in 1..n
  BY <1>1
<1>8. /\ Jumps(blocks'[n].code) \subseteq Jumps(blocks[n].code) \cup Jumps(code)
      /\ ~RunsOff(blocks'[n].code)
      /\ \A i \in 1..n-1 : blocks'[i].code = blocks[i].code
  BY <1>1, <1>3, <1>6, <1>7
<1> QED BY <1>1, <1>4, <1>5, <1>6, <1>8 DEF n, Extended

-----------------------------------------------------------------------------
(***************************************************************************)
(* What a step does to the labels still to come.                           *)
(***************************************************************************)

(* The code that ends a block.                                             *)
LEMMA LeavingCode ==
  ASSUME NEW a \in Labels, NEW b \in Labels
  PROVE  /\ <<Inst("JMP", b)>> \in CodeSet
         /\ ~RunsOff(<<Inst("JMP", b)>>)
         /\ \A inst \in Jumps(<<Inst("JMP", b)>>) : inst.target = b
         /\ <<Inst("JZ", a), Inst("JMP", b)>> \in CodeSet
         /\ ~RunsOff(<<Inst("JZ", a), Inst("JMP", b)>>)
         /\ \A inst \in Jumps(<<Inst("JZ", a), Inst("JMP", b)>>) : inst.target \in {a, b}
<1> DEFINE jz == Inst("JZ", a)
           jmp == Inst("JMP", b)
           I == [op : {"JZ", "JMP", "RET"}, target : Labels]
<1>1. jz \in I /\ jmp \in I /\ jmp.op # "JZ" /\ jz.target = a /\ jmp.target = b
  BY DEF Inst
<1> HIDE DEF jz, jmp, I
<1>2. /\ <<jmp>> \in Seq(I) /\ ~RunsOff(<<jmp>>)
      /\ \A inst \in Jumps(<<jmp>>) : inst = jmp
  BY <1>1 DEF RunsOff, Jumps
<1>3. /\ <<jz, jmp>> \in Seq(I) /\ ~RunsOff(<<jz, jmp>>)
      /\ \A inst \in Jumps(<<jz, jmp>>) : inst \in {jz, jmp}
  <2>1. <<jz, jmp>> \in Seq(I) BY <1>1
  <2>2. ~RunsOff(<<jz, jmp>>)
    <3>1. 2 \in DOMAIN <<jz, jmp>> /\ <<jz, jmp>>[2] = jmp OBVIOUS
    <3> QED BY <1>1, <3>1 DEF RunsOff
  <2>3. \A i \in DOMAIN <<jz, jmp>> : <<jz, jmp>>[i] \in {jz, jmp}
    OBVIOUS
  <2>4. \A inst \in Jumps(<<jz, jmp>>) : inst \in {jz, jmp}
    BY <2>3 DEF Jumps
  <2> QED BY <2>1, <2>2, <2>4
<1> QED BY <1>1, <1>2, <1>3 DEF I, jz, jmp, CodeSet

(* A block is ended and one begun under a label that was still to come or  *)
(* is new: the labels still to come lose it, and may gain new ones.        *)
LEMMA ExtendedInv ==
  ASSUME Typed, LabelsFresh, JumpsGo, BlocksLeft,
         NEW code, NEW label, Extended(code, label), Len(blocks) \in Nat \ {0},
         label.kind # "ENTRY", label.id < blockCounter',
         blockCounter' \in Nat, blockCounter' >= blockCounter,
         label.id \in Nat,
         PendingIn(open, ids, label) \/ label.id >= blockCounter,
         ~PendingIn(open', ids', label),
         \A t : PendingIn(open, ids, t) => PendingIn(open', ids', t) \/ t = label,
         \A t : PendingIn(open', ids', t) => PendingIn(open, ids, t) \/ (t.kind # "ENTRY" /\ t.id >= blockCounter),
         \A inst \in Jumps(code) : PendingIn(open', ids', inst.target) \/ inst.target = label
  PROVE  LabelsFresh' /\ JumpsGo' /\ BlocksLeft'
<1> DEFINE n == Len(blocks)
<1>1. /\ n \in Nat \ {0} /\ DOMAIN blocks = 1..n /\ DOMAIN blocks' = 1..(n + 1)
      /\ \A i \in 1..n : blocks'[i].label = blocks[i].label
      /\ blocks'[n + 1].label = label
      /\ blockCounter \in Nat
  BY DEF Extended, Typed
<1>0. /\ Len(blocks') = n + 1
      /\ \A i \in 1..n-1 : blocks'[i].code = blocks[i].code
      /\ Jumps(blocks'[n].code) \subseteq Jumps(blocks[n].code) \cup Jumps(code)
      /\ ~RunsOff(blocks'[n].code)
      /\ Jumps(blocks'[n + 1].code) = {}
  BY DEF Extended
<1>2. \A i \in 1..n : blocks[i].label.kind # "ENTRY" => blocks[i].label.id \in Nat
  <2>1. \A i \in 1..n : blocks[i] \in BlockSet BY <1>1 DEF Typed
  <2> QED BY <2>1 DEF BlockSet, Labels
<1>3. \A i \in 1..n : blocks[i].label # label
  BY <1>1, <1>2 DEF LabelsFresh, Pending
<1>4. LabelsFresh'
  <2>1. \A i \in DOMAIN blocks' : blocks'[i].label.kind = "ENTRY" => i = 1
    BY <1>1 DEF LabelsFresh, Pending
  <2>2. \A i \in DOMAIN blocks' :
          blocks'[i].label.kind # "ENTRY" => blocks'[i].label.id < blockCounter'
    <3>1. ASSUME NEW i \in 1..n, blocks[i].label.kind # "ENTRY"
          PROVE  blocks[i].label.id < blockCounter'
      BY <3>1, <1>1, <1>2 DEF LabelsFresh, Pending
    <3> QED BY <1>1, <3>1
  <2>3. ASSUME NEW i \in DOMAIN blocks' PROVE ~PendingIn(open', ids', blocks'[i].label)
    <3>1. CASE i = n + 1 BY <1>1, <3>1
    <3>2. CASE i \in 1..n
      <4>1. /\ blocks'[i].label = blocks[i].label /\ ~PendingIn(open, ids, blocks[i].label)
            /\ blocks[i].label.kind # "ENTRY" =>
                 blocks[i].label.id \in Nat /\ blocks[i].label.id < blockCounter
        BY <1>1, <1>2, <3>2 DEF LabelsFresh, Pending
      <4> DEFINE t == blocks[i].label
      <4>2. PendingIn(open', ids', t) => PendingIn(open, ids, t) \/ (t.kind # "ENTRY" /\ t.id >= blockCounter)
        OBVIOUS
      <4> HIDE DEF t
      <4>3. ~PendingIn(open', ids', t)
        BY <1>1, <4>1, <4>2 DEF t
      <4> QED BY <4>1, <4>3 DEF t
    <3> QED BY <1>1, <3>1, <3>2
  <2>4. DistinctLabels(blocks')
    BY <1>1, <1>3 DEF LabelsFresh, Pending, DistinctLabels
  <2> QED BY <2>1, <2>2, <2>3, <2>4 DEF LabelsFresh, Pending
<1>7. \A i \in 1..n-1 : ~RunsOff(blocks[i].code)
  BY DEF BlocksLeft
<1> HIDE DEF n
<1>8. \A i \in 1..n : i = n \/ i \in 1..n-1
  BY <1>1
<1>5. JumpsGo'
  <2> SUFFICES ASSUME NEW i \in 1..n, NEW inst \in Jumps(blocks'[i].code)
               PROVE  PendingIn(open', ids', inst.target) \/ Resolved(blocks', i, inst.target)
    <3>1. \A i \in DOMAIN blocks' : i = n + 1 \/ i \in 1..n
      BY <1>1
    <3> QED BY <3>1, <1>0 DEF JumpsGo, Pending
  <2>1. inst \in Jumps(blocks[i].code) \/ (i = n /\ inst \in Jumps(code))
    BY <1>0, <1>8
  <2>2. inst.target = label => Resolved(blocks', i, inst.target)
    BY <1>1 DEF Resolved
  <2>3. CASE i = n /\ inst \in Jumps(code)
    BY <2>2, <2>3
  <2>4. CASE inst \in Jumps(blocks[i].code)
    <3>1. PendingIn(open, ids, inst.target) \/ Resolved(blocks, i, inst.target)
      BY <2>4, <1>1 DEF JumpsGo, Pending
    <3>2. CASE Resolved(blocks, i, inst.target)
      BY <1>1, <3>2 DEF Resolved
    <3>3. CASE PendingIn(open, ids, inst.target)
      BY <2>2, <3>3
    <3> QED BY <3>1, <3>2, <3>3
  <2> QED BY <2>1, <2>3, <2>4
<1>6. BlocksLeft'
  <2>1. \A i \in 1..n : ~RunsOff(blocks'[i].code)
    BY <1>0, <1>7, <1>8
  <2> QED BY <1>0, <1>1, <2>1 DEF BlocksLeft
<1> QED BY <1>4, <1>5, <1>6

-----------------------------------------------------------------------------
(***************************************************************************)
(* The steps.                                                              *)
(***************************************************************************)

(* Steps that leave the blocks alone and no label comes or goes.           *)
LEMMA BlocksKept ==
  ASSUME LabelsFresh, JumpsGo, BlocksLeft,
         blocks' = blocks, blockCounter' = blockCounter,
         \A t : PendingIn(open', ids', t) <=> PendingIn(open, ids, t)
  PROVE  LabelsFresh' /\ JumpsGo' /\ BlocksLeft'
<1>1. LabelsFresh' BY DEF LabelsFresh, Pending
<1>2. JumpsGo' BY DEF JumpsGo, Pending
<1>3. BlocksLeft' BY DEF BlocksLeft
<1> QED BY <1>1, <1>2, <1>3

(* The open statements are the same.                                       *)
LEMMA StackKept ==
  ASSUME Typed, IdsFresh, open' \in Seq(Frames), Len(open') = Len(open),
         SameUpTo(Len(open)), ids' = ids, blockCounter' = blockCounter
  PROVE  /\ IdsFresh'
         /\ \A t : PendingIn(open', ids', t) <=> PendingIn(open, ids, t)
<1>1. /\ DOMAIN open' = DOMAIN open
      /\ \A k \in DOMAIN open : open'[k].node = open[k].node /\ open'[k].tight = open[k].tight
  BY DEF Typed, WalkInv, WalkTyped, SameUpTo
<1>2. IdsFresh' BY <1>1 DEF IdsFresh, IsIf
<1>3. \A t : PendingIn(open', ids', t) <=> PendingIn(open, ids, t)
  BY <1>1 DEF PendingIn
<1> QED BY <1>2, <1>3

(* A block is opened.                                                      *)
LEMMA StackPushed ==
  ASSUME Typed, IdsFresh, open' \in Seq(Frames), Len(open') = Len(open) + 1,
         SameUpTo(Len(open)), NEW id \in Nat, ids' = Append(ids, id)
  PROVE  /\ DOMAIN open' = DOMAIN open \cup {Len(open) + 1}
         /\ Len(open) + 1 \notin DOMAIN open
         /\ ids' \in Seq(Nat) /\ Len(ids') = Len(open')
         /\ ids'[Len(open) + 1] = id
         /\ \A k \in DOMAIN open : /\ ids'[k] = ids[k]
                                   /\ open'[k].node = open[k].node
                                   /\ open'[k].tight = open[k].tight
BY DEF Typed, WalkInv, WalkTyped, SameUpTo

(* A statement is closed.                                                  *)
LEMMA StackPopped ==
  ASSUME Typed, IdsFresh, open' \in Seq(Frames), Len(open) > 1, Len(open') = Len(open) - 1,
         SameUpTo(Len(open) - 1), ids' = OuterIds
  PROVE  /\ DOMAIN open = DOMAIN open' \cup {Len(open)}
         /\ Len(open) \notin DOMAIN open'
         /\ ids' \in Seq(Nat) /\ Len(ids') = Len(open')
         /\ \A k \in DOMAIN open' : /\ ids'[k] = ids[k]
                                    /\ open'[k].node = open[k].node
                                    /\ open'[k].tight = open[k].tight
<1>1. /\ ids \in Seq(Nat) /\ Len(ids) = Len(open) /\ ids # <<>>
      /\ open \in Seq(Frames) /\ Len(open) \in Nat
  BY DEF Typed, WalkInv, WalkTyped
<1>2. /\ ids' \in Seq(Nat) /\ Len(ids') = Len(ids) - 1
      /\ \A i \in 1..Len(ids)-1 : ids'[i] = ids[i]
  BY <1>1, FrontFacts DEF OuterIds
<1> QED BY <1>1, <1>2 DEF SameUpTo

LEMMA StatementInv == ASSUME IInv, Statement PROVE IInv'
<1>1. WalkInv' /\ open # <<>> /\ Len(open') = Len(open) /\ SameUpTo(Len(open))
  BY VisitStatementWalk DEF IInv, Typed, Statement
<1>2. UNCHANGED irVars BY DEF Statement
<1>3. open' # <<>> /\ open' \in Seq(Frames)
  BY <1>1 DEF WalkInv, WalkTyped, IInv, Typed
<1>4. Typed'
  BY <1>1, <1>2, <1>3 DEF IInv, Typed, irVars
<1>5. IdsFresh' /\ LabelsFresh' /\ JumpsGo' /\ BlocksLeft'
  BY <1>1, <1>2, <1>3, StackKept, BlocksKept DEF IInv, irVars
<1>6. ProgramFinished'
  BY <1>2 DEF IInv, ProgramFinished, irVars
<1> QED BY <1>4, <1>5, <1>6 DEF IInv

LEMMA BeginBlockInv == ASSUME IInv, BeginBlock PROVE IInv'
<1>1. /\ WalkInv' /\ open # <<>> /\ Len(open') = Len(open) + 1 /\ SameUpTo(Len(open))
      /\ open'[Len(open) + 1].node = "block"
  BY OpenBlockWalk DEF IInv, Typed, BeginBlock
<1>2. /\ ids' = Append(ids, 0) /\ blocks' = blocks /\ currentBlock' = currentBlock
      /\ blockCounter' = blockCounter /\ program' = program
  BY DEF BeginBlock
<1>3. open' # <<>> /\ open' \in Seq(Frames)
  BY <1>1 DEF WalkInv, WalkTyped, IInv, Typed
<1>4. /\ DOMAIN open' = DOMAIN open \cup {Len(open) + 1}
      /\ ids' \in Seq(Nat) /\ Len(ids') = Len(open')
      /\ \A k \in DOMAIN open : /\ ids'[k] = ids[k]
                                /\ open'[k].node = open[k].node
                                /\ open'[k].tight = open[k].tight
  BY <1>1, <1>2, <1>3, StackPushed DEF IInv
<1>5. Typed'
  BY <1>1, <1>2, <1>3, <1>4 DEF IInv, Typed
<1>6. IdsFresh'
  <2>1. \A k \in DOMAIN open' : open'[k].node \in {"if", "else"} =>
          k \in DOMAIN open /\ open[k].node \in {"if", "else"} /\ ids'[k] = ids[k]
    BY <1>1, <1>4
  <2> QED BY <1>2, <2>1 DEF IInv, IdsFresh, IsIf
<1>7. \A t : PendingIn(open', ids', t) <=> PendingIn(open, ids, t)
  BY <1>1, <1>4 DEF PendingIn
<1>8. LabelsFresh' /\ JumpsGo' /\ BlocksLeft'
  BY <1>2, <1>7, BlocksKept DEF IInv
<1>9. ProgramFinished'
  BY <1>2 DEF IInv, ProgramFinished
<1> QED BY <1>5, <1>6, <1>8, <1>9 DEF IInv

LEMMA EndBlockInv == ASSUME IInv, EndBlock PROVE IInv'
<1>1. /\ WalkInv' /\ Len(open) > 1 /\ Len(open') = Len(open) - 1 /\ SameUpTo(Len(open) - 1)
      /\ open[Len(open)].node = "block"
  BY CloseBlockWalk DEF IInv, Typed, EndBlock, CloseBlock, Top
<1>2. /\ ids' = OuterIds /\ blocks' = blocks /\ currentBlock' = currentBlock
      /\ blockCounter' = blockCounter /\ program' = program
  BY DEF EndBlock
<1>3. open' # <<>> /\ open # <<>> /\ open' \in Seq(Frames)
  BY <1>1 DEF WalkInv, WalkTyped, IInv, Typed
<1>4. /\ DOMAIN open = DOMAIN open' \cup {Len(open)}
      /\ ids' \in Seq(Nat) /\ Len(ids') = Len(open')
      /\ \A k \in DOMAIN open' : /\ ids'[k] = ids[k]
                                 /\ open'[k].node = open[k].node
                                 /\ open'[k].tight = open[k].tight
  BY <1>1, <1>2, <1>3, StackPopped DEF IInv
<1>5. Typed'
  BY <1>1, <1>2, <1>3, <1>4 DEF IInv, Typed
<1>6. IdsFresh'
  <2>1. \A k \in DOMAIN open' : open'[k].node \in {"if", "else"} =>
          k \in DOMAIN open /\ open[k].node \in {"if", "else"} /\ ids'[k] = ids[k]
    BY <1>1, <1>4
  <2> QED BY <1>2, <2>1 DEF IInv, IdsFresh, IsIf
<1>7. \A t : PendingIn(open', ids', t) <=> PendingIn(open, ids, t)
  BY <1>1, <1>4 DEF PendingIn
<1>8. LabelsFresh' /\ JumpsGo' /\ BlocksLeft'
  BY <1>2, <1>7, BlocksKept DEF IInv
<1>9. ProgramFinished'
  BY <1>2 DEF IInv, ProgramFinished
<1> QED BY <1>5, <1>6, <1>8, <1>9 DEF IInv

LEMMA TopLevelInv == ASSUME IInv, TopLevel PROVE IInv'
<1>1. WalkInv' /\ open' = <<>> /\ open = <<>> /\ UNCHANGED irVars
  BY VisitTopLevelWalk DEF IInv, Typed, TopLevel
<1>2. \A t : PendingIn(open', ids', t) <=> PendingIn(open, ids, t)
  BY <1>1 DEF irVars
<1>3. LabelsFresh' /\ JumpsGo' /\ BlocksLeft'
  BY <1>1, <1>2, BlocksKept DEF IInv, irVars
<1>4. Typed' /\ IdsFresh' /\ ProgramFinished'
  BY <1>1 DEF IInv, Typed, IdsFresh, IsIf, ProgramFinished, irVars
<1> QED BY <1>3, <1>4 DEF IInv

LEMMA ReturnInv == ASSUME IInv, Return PROVE IInv'
<1> DEFINE ret == <<Inst("RET", NoLabel)>>
           n == Len(blocks)
<1>1. WalkInv' /\ open # <<>> /\ Len(open') = Len(open) /\ SameUpTo(Len(open))
  BY VisitStatementWalk DEF IInv, Typed, Return
<1>2. /\ blocks' = Emit(ret) /\ ids' = ids /\ currentBlock' = currentBlock
      /\ blockCounter' = blockCounter /\ program' = program
  BY DEF Return
<1>3. open' # <<>> /\ open' \in Seq(Frames)
  BY <1>1 DEF WalkInv, WalkTyped, IInv, Typed
<1>4. ret \in CodeSet /\ Jumps(ret) = {}
  <2>1. ret[1].op = "RET" /\ DOMAIN ret = {1}
    BY DEF Inst
  <2>2. ret \in CodeSet
    BY DEF Inst, NoLabel, Label, Labels, CodeSet
  <2> QED BY <2>1, <2>2 DEF Jumps
<1> HIDE DEF ret
<1>5. /\ blocks' \in Seq(BlockSet) /\ Len(blocks') = n /\ n \in Nat \ {0}
      /\ \A i \in 1..n : blocks'[i].label = blocks[i].label
      /\ \A i \in 1..n-1 : blocks'[i].code = blocks[i].code
      /\ blocks'[n].code = blocks[n].code \o ret
  BY <1>1, <1>2, <1>4, EmitFacts DEF IInv
<1>6. blocks[n].code \in CodeSet /\ DOMAIN blocks = 1..n /\ DOMAIN blocks' = 1..n
  <2>1. blocks \in Seq(BlockSet) /\ n \in 1..Len(blocks)
    BY <1>5 DEF IInv, Typed
  <2>2. blocks[n] \in BlockSet BY <2>1
  <2> QED BY <1>5, <2>1, <2>2 DEF BlockSet, CodeSet
<1>7. Typed'
  BY <1>1, <1>2, <1>3, <1>5 DEF IInv, Typed
<1> HIDE DEF n
<1>8. \A i \in 1..n : Jumps(blocks'[i].code) \subseteq Jumps(blocks[i].code)
  <2>1. Jumps(blocks'[n].code) \subseteq Jumps(blocks[n].code)
    BY <1>4, <1>5, <1>6, JumpsOfConcat
  <2>2. \A i \in 1..n : i = n \/ i \in 1..n-1
    BY <1>5
  <2> QED BY <1>5, <2>1, <2>2
<1>9. IdsFresh' /\ \A t : PendingIn(open', ids', t) <=> PendingIn(open, ids, t)
  BY <1>1, <1>2, <1>3, StackKept DEF IInv
<1>10. LabelsFresh'
  BY <1>2, <1>5, <1>6, <1>9 DEF IInv, LabelsFresh, Pending, DistinctLabels
<1>11. JumpsGo'
  <2> SUFFICES ASSUME NEW i \in 1..n, NEW inst \in Jumps(blocks'[i].code)
               PROVE  PendingIn(open', ids', inst.target) \/ Resolved(blocks', i, inst.target)
    BY <1>6 DEF JumpsGo, Pending
  <2>1. PendingIn(open, ids, inst.target) \/ Resolved(blocks, i, inst.target)
    BY <1>6, <1>8 DEF IInv, JumpsGo, Pending
  <2> QED BY <1>5, <1>6, <1>9, <2>1 DEF Resolved
<1>12. BlocksLeft'
  BY <1>5 DEF IInv, BlocksLeft, n
<1>13. ProgramFinished'
  BY <1>2 DEF IInv, ProgramFinished
<1> QED BY <1>7, <1>9, <1>10, <1>11, <1>12, <1>13 DEF IInv

LEMMA BeginFunctionInv == ASSUME IInv, BeginFunction PROVE IInv'
<1> DEFINE entry == Block(Label("ENTRY", 0))
<1>1. WalkInv' /\ open = <<>> /\ Len(open') = 1 /\ open'[1].node = "func"
  BY OpenFunctionWalk DEF IInv, Typed, BeginFunction
<1>2. /\ ids' = <<0>> /\ blocks' = <<entry>> /\ currentBlock' = 1
      /\ blockCounter' = blockCounter /\ program' = program
  BY DEF BeginFunction, Start
<1>3. /\ entry \in BlockSet /\ entry.label.kind = "ENTRY" /\ Jumps(entry.code) = {}
      /\ entry.label = Label("ENTRY", 0)
  BY DEF Block, Label, Labels, BlockSet, Jumps
<1> HIDE DEF entry
<1>4. /\ blocks' \in Seq(BlockSet) /\ Len(blocks') = 1 /\ DOMAIN blocks' = {1}
      /\ blocks'[1] = entry
  BY <1>2, <1>3
<1>5. open' # <<>> /\ DOMAIN open' = {1}
  BY <1>1 DEF WalkInv, WalkTyped
<1>6. Typed'
  BY <1>1, <1>2, <1>4, <1>5 DEF IInv, Typed
<1>7. IdsFresh' /\ \A t : ~PendingIn(open', ids', t)
  BY <1>1, <1>5 DEF IdsFresh, IsIf, PendingIn
<1>8. LabelsFresh' /\ JumpsGo' /\ BlocksLeft'
  BY <1>3, <1>4, <1>7 DEF LabelsFresh, Pending, DistinctLabels, JumpsGo, BlocksLeft
<1>9. ProgramFinished'
  BY <1>2 DEF IInv, ProgramFinished
<1> QED BY <1>6, <1>7, <1>8, <1>9 DEF IInv

LEMMA EndFunctionInv == ASSUME IInv, NEW isVoid \in BOOLEAN, EndFunction(isVoid) PROVE IInv'
<1>1. WalkInv' /\ Len(open) = 1 /\ open' = <<>> /\ open[1].node = "func"
  BY CloseFunctionWalk DEF IInv, Typed, EndFunction, CloseFunction, Top
<1>2. /\ ids' = <<>> /\ blocks' = <<>> /\ currentBlock' = 0 /\ blockCounter' = blockCounter
      /\ program' = Append(program, [isVoid |-> isVoid, blocks |-> blocks])
  BY DEF EndFunction
<1>3. \A t : ~Pending(t)
  <2>1. DOMAIN open = {1}
    BY <1>1 DEF IInv, Typed, WalkInv, WalkTyped
  <2> QED BY <1>1, <2>1 DEF Pending, PendingIn
<1>4. Finished(blocks)
  BY <1>3 DEF IInv, LabelsFresh, JumpsGo, BlocksLeft, Finished
<1> DEFINE f == [isVoid |-> isVoid, blocks |-> blocks]
<1>5. f \in [isVoid : BOOLEAN, blocks : Seq(BlockSet)] /\ f.blocks = blocks
  BY DEF IInv, Typed
<1> HIDE DEF f
<1>6. /\ program' \in Seq([isVoid : BOOLEAN, blocks : Seq(BlockSet)])
      /\ \A p \in DOMAIN program' : program'[p] = f \/ (p \in DOMAIN program /\ program'[p] = program[p])
  <2>1. program \in Seq([isVoid : BOOLEAN, blocks : Seq(BlockSet)])
    BY DEF IInv, Typed
  <2>2. program' = Append(program, f) BY <1>2 DEF f
  <2> QED BY <1>5, <2>1, <2>2
<1>7. Typed'
  BY <1>1, <1>2, <1>6 DEF IInv, Typed
<1>8. IdsFresh' /\ LabelsFresh' /\ JumpsGo' /\ BlocksLeft'
  BY <1>1, <1>2 DEF IdsFresh, LabelsFresh, DistinctLabels, JumpsGo, BlocksLeft
<1>9. ProgramFinished'
  BY <1>4, <1>5, <1>6 DEF IInv, ProgramFinished
<1> QED BY <1>7, <1>8, <1>9 DEF IInv

(* The labels still to come end a statement or begin its second branch.    *)
LEMMA PendingKinds ==
  ASSUME NEW stack, NEW numbers, NEW target, PendingIn(stack, numbers, target)
  PROVE  target.kind \in {"ELSE", "ENDIF"}
BY LabelFacts DEF PendingIn

LEMMA BeginIfInv == ASSUME IInv, NEW hasElse \in BOOLEAN, BeginIf(hasElse) PROVE IInv'
<1> DEFINE id == blockCounter
           label == Label("IF", id)
           other == Label(IF hasElse THEN "ELSE" ELSE "ENDIF", id)
           code == <<Inst("JZ", label), Inst("JMP", other)>>
           new == Len(open) + 1
<1>1. /\ WalkInv' /\ open # <<>> /\ Len(open') = Len(open) + 1 /\ SameUpTo(Len(open))
      /\ open'[new].node = "if" /\ open'[new].tight = hasElse
  BY OpenIfWalk DEF IInv, Typed, BeginIf
<1>2. /\ Start(Emit(code), label) /\ ids' = Append(ids, id)
      /\ blockCounter' = id + 1 /\ program' = program
  BY DEF BeginIf
<1>3. open' # <<>> /\ open' \in Seq(Frames) /\ id \in Nat
  BY <1>1 DEF WalkInv, WalkTyped, IInv, Typed
<1>4. /\ DOMAIN open' = DOMAIN open \cup {new} /\ new \notin DOMAIN open
      /\ ids' \in Seq(Nat) /\ Len(ids') = Len(open') /\ ids'[new] = id
      /\ \A k \in DOMAIN open : /\ ids'[k] = ids[k]
                                /\ open'[k].node = open[k].node
                                /\ open'[k].tight = open[k].tight
  BY <1>1, <1>2, <1>3, StackPushed DEF IInv
<1>5. label \in Labels /\ other \in Labels /\ label.kind = "IF" /\ label.id = id
  BY <1>3 DEF Labels, Label
<1>6. /\ code \in CodeSet /\ ~RunsOff(code)
      /\ \A inst \in Jumps(code) : inst.target \in {label, other}
  BY <1>5, LeavingCode
<1> HIDE DEF code
<1>7. Extended(code, label) /\ Len(blocks) \in Nat \ {0}
  BY <1>1, <1>2, <1>5, <1>6, ExtendFacts DEF IInv
<1>8. Typed'
  BY <1>1, <1>2, <1>3, <1>4, <1>7 DEF IInv, Typed, Extended
<1>9. IdsFresh'
  <2>1. \A k \in DOMAIN open : ids[k] \in Nat
    BY DEF IInv, Typed, WalkInv, WalkTyped
  <2>2. \A k \in DOMAIN open : open[k].node \in {"if", "else"} => ids[k] < id
    BY DEF IInv, IdsFresh, IsIf
  <2>3. \A k \in DOMAIN open' : open'[k].node \in {"if", "else"} => ids'[k] < id + 1
    BY <1>3, <1>4, <2>1, <2>2
  <2>4. \A k \in DOMAIN open : open[k].node \in {"if", "else"} => ids[k] # id
    BY <1>3, <2>1, <2>2
  <2>5. ASSUME NEW k \in DOMAIN open', NEW l \in DOMAIN open', k # l,
               open'[k].node \in {"if", "else"}, open'[l].node \in {"if", "else"}
        PROVE  ids'[k] # ids'[l]
    BY <1>4, <2>4, <2>5 DEF IInv, IdsFresh, IsIf
  <2> QED BY <1>2, <2>3, <2>5 DEF IdsFresh, IsIf
<1>10. \A t : PendingIn(open, ids, t) => PendingIn(open', ids', t)
  <2> SUFFICES ASSUME NEW t, PendingIn(open, ids, t) PROVE PendingIn(open', ids', t)
    OBVIOUS
  <2>1. PICK k \in DOMAIN open :
          \/ open[k].node \in {"if", "else"} /\ t = Label("ENDIF", ids[k])
          \/ open[k].node = "if" /\ open[k].tight /\ t = Label("ELSE", ids[k])
    BY DEF PendingIn
  <2>2. k \in DOMAIN open' /\ ids'[k] = ids[k] /\ open'[k].node = open[k].node
        /\ open'[k].tight = open[k].tight
    BY <1>4
  <2> QED BY <2>1, <2>2 DEF PendingIn
<1>11. \A t : PendingIn(open', ids', t) =>
         PendingIn(open, ids, t) \/ (t.kind # "ENTRY" /\ t.id >= blockCounter)
  <2> SUFFICES ASSUME NEW t, PendingIn(open', ids', t)
               PROVE  PendingIn(open, ids, t) \/ (t.kind # "ENTRY" /\ t.id >= blockCounter)
    OBVIOUS
  <2>1. PICK k \in DOMAIN open' :
          \/ open'[k].node \in {"if", "else"} /\ t = Label("ENDIF", ids'[k])
          \/ open'[k].node = "if" /\ open'[k].tight /\ t = Label("ELSE", ids'[k])
    BY DEF PendingIn
  <2>2. CASE k \in DOMAIN open
    <3>1. ids'[k] = ids[k] /\ open'[k].node = open[k].node /\ open'[k].tight = open[k].tight
      BY <1>4, <2>2
    <3> QED BY <2>1, <2>2, <3>1 DEF PendingIn
  <2>3. CASE k = new
    <3>1. t = Label("ENDIF", id) \/ t = Label("ELSE", id)
      BY <1>4, <2>1, <2>3
    <3> QED BY <1>3, <3>1, LabelFacts
  <2> QED BY <1>4, <2>2, <2>3
<1>12. PendingIn(open', ids', other)
  <2>1. new \in DOMAIN open' BY <1>4
  <2>2. open'[new].node \in {"if", "else"} /\ Label("ENDIF", id) = Label("ENDIF", ids'[new])
    BY <1>1, <1>4
  <2>3. CASE hasElse
    BY <1>1, <1>4, <2>1, <2>3 DEF PendingIn
  <2>4. CASE ~hasElse
    BY <2>1, <2>2, <2>4 DEF PendingIn
  <2> QED BY <2>3, <2>4
<1> HIDE DEF label, other
<1>13. ~PendingIn(open', ids', label)
  BY <1>5, PendingKinds
<1>14. \A inst \in Jumps(code) : PendingIn(open', ids', inst.target) \/ inst.target = label
  BY <1>6, <1>12
<1>15. LabelsFresh' /\ JumpsGo' /\ BlocksLeft'
  <2>1. label.kind # "ENTRY" /\ label.id < blockCounter' /\ blockCounter' \in Nat
        /\ blockCounter' >= blockCounter /\ label.id \in Nat /\ label.id >= blockCounter
    BY <1>2, <1>3, <1>5
  <2> QED BY <1>7, <1>10, <1>11, <1>13, <1>14, <2>1, ExtendedInv DEF IInv
<1>16. ProgramFinished'
  BY <1>2 DEF IInv, ProgramFinished
<1> QED BY <1>8, <1>9, <1>15, <1>16 DEF IInv

(* Nothing but the open statement on top waits for its labels.             *)
LEMMA TopPending ==
  ASSUME IInv, NEW stack, NEW numbers, NEW n \in Nat, DOMAIN stack = 1..n,
         Len(open) = n + 1,
         \A k \in 1..n : /\ numbers[k] = ids[k]
                         /\ stack[k].node = open[k].node
                         /\ stack[k].tight = open[k].tight,
         IsIf(Len(open))
  PROVE  /\ \A t : PendingIn(stack, numbers, t) => Pending(t) /\ t.id # TopId
         /\ \A t : Pending(t) =>
              \/ PendingIn(stack, numbers, t)
              \/ t = Label("ENDIF", TopId)
              \/ open[n + 1].node = "if" /\ open[n + 1].tight /\ t = Label("ELSE", TopId)
         /\ Pending(Label("ENDIF", TopId))
         /\ TopId \in Nat /\ TopId < blockCounter
<1>0. open \in Seq(Frames) /\ ids \in Seq(Nat) /\ Len(ids) = n + 1
  BY DEF IInv, Typed, WalkInv, WalkTyped
<1>1. /\ DOMAIN open = 1..(n + 1) /\ n + 1 \in DOMAIN open /\ TopId = ids[n + 1]
      /\ \A k \in 1..(n + 1) : ids[k] \in Nat
      /\ \A k \in DOMAIN open : k = n + 1 \/ k \in 1..n
      /\ \A k \in 1..n : k \in DOMAIN open /\ k # n + 1
  <2>1. DOMAIN open = 1..(n + 1) BY <1>0
  <2>2. TopId = ids[n + 1] BY <1>0 DEF TopId
  <2>3. \A k \in 1..(n + 1) : ids[k] \in Nat BY <1>0
  <2> QED BY <2>1, <2>2, <2>3
<1>2. ASSUME NEW t, PendingIn(stack, numbers, t) PROVE Pending(t) /\ t.id # TopId
  <2>1. PICK k \in 1..n :
          \/ stack[k].node \in {"if", "else"} /\ t = Label("ENDIF", numbers[k])
          \/ stack[k].node = "if" /\ stack[k].tight /\ t = Label("ELSE", numbers[k])
    BY <1>2 DEF PendingIn
  <2>2. /\ k \in DOMAIN open /\ k # n + 1 /\ numbers[k] = ids[k]
        /\ stack[k].node = open[k].node /\ stack[k].tight = open[k].tight
    BY <1>1
  <2>3. Pending(t)
    BY <2>1, <2>2 DEF Pending, PendingIn
  <2>4. IsIf(k) /\ t.id = ids[k]
    BY <2>1, <2>2, LabelFacts DEF IsIf
  <2>5. ids[k] # ids[n + 1]
    BY <1>1, <2>2, <2>4 DEF IInv, IdsFresh
  <2> QED BY <1>1, <2>3, <2>4, <2>5
<1>3. ASSUME NEW t, Pending(t)
      PROVE  \/ PendingIn(stack, numbers, t)
             \/ t = Label("ENDIF", TopId)
             \/ open[n + 1].node = "if" /\ open[n + 1].tight /\ t = Label("ELSE", TopId)
  <2>1. PICK k \in DOMAIN open :
          \/ open[k].node \in {"if", "else"} /\ t = Label("ENDIF", ids[k])
          \/ open[k].node = "if" /\ open[k].tight /\ t = Label("ELSE", ids[k])
    BY <1>3 DEF Pending, PendingIn
  <2>2. CASE k = n + 1 BY <1>1, <2>1, <2>2
  <2>3. CASE k \in 1..n BY <2>1, <2>3 DEF PendingIn
  <2> QED BY <1>1, <2>2, <2>3
<1>4. Pending(Label("ENDIF", TopId))
  BY <1>1 DEF Pending, PendingIn, IsIf
<1>5. TopId \in Nat /\ TopId < blockCounter
  BY <1>1 DEF IInv, IdsFresh
<1> QED BY <1>2, <1>3, <1>4, <1>5

LEMMA EndIfInv == ASSUME IInv, EndIf PROVE IInv'
<1> DEFINE id == TopId
           label == Label("ENDIF", id)
           code == <<Inst("JMP", label)>>
           n == Len(open) - 1
<1>1. /\ WalkInv' /\ Len(open) > 1 /\ Len(open') = Len(open) - 1 /\ SameUpTo(Len(open) - 1)
      /\ IsIf(Len(open)) /\ ~(open[Len(open)].node = "if" /\ open[Len(open)].tight)
  BY CloseIfWalk DEF IInv, Typed, EndIf, IsIf
<1>2. /\ Start(Emit(code), label) /\ ids' = OuterIds
      /\ blockCounter' = blockCounter + 1 /\ program' = program
  BY DEF EndIf
<1>3. /\ open' # <<>> /\ open # <<>> /\ open' \in Seq(Frames) /\ n \in Nat
      /\ Len(open) = n + 1 /\ DOMAIN open' = 1..n /\ blockCounter \in Nat
  BY <1>1 DEF WalkInv, WalkTyped, IInv, Typed
<1>4. /\ DOMAIN open = DOMAIN open' \cup {Len(open)}
      /\ ids' \in Seq(Nat) /\ Len(ids') = Len(open')
      /\ \A k \in DOMAIN open' : /\ ids'[k] = ids[k]
                                 /\ open'[k].node = open[k].node
                                 /\ open'[k].tight = open[k].tight
  BY <1>1, <1>2, <1>3, StackPopped DEF IInv
<1> HIDE DEF n
<1>5. /\ \A t : PendingIn(open', ids', t) => Pending(t) /\ t.id # id
      /\ \A t : Pending(t) => PendingIn(open', ids', t) \/ t = label
      /\ Pending(label)
      /\ id \in Nat /\ id < blockCounter
  <2>1. \A k \in 1..n : /\ ids'[k] = ids[k]
                       /\ open'[k].node = open[k].node
                       /\ open'[k].tight = open[k].tight
    BY <1>3, <1>4
  <2>2. ~(open[n + 1].node = "if" /\ open[n + 1].tight)
    BY <1>1, <1>3
  <2>3. /\ \A t : PendingIn(open', ids', t) => Pending(t) /\ t.id # TopId
        /\ \A t : Pending(t) =>
             \/ PendingIn(open', ids', t)
             \/ t = Label("ENDIF", TopId)
             \/ open[n + 1].node = "if" /\ open[n + 1].tight /\ t = Label("ELSE", TopId)
        /\ Pending(Label("ENDIF", TopId))
        /\ TopId \in Nat /\ TopId < blockCounter
    BY <1>1, <1>3, <2>1, TopPending
  <2> QED BY <2>2, <2>3
<1> HIDE DEF id
<1>6. label \in Labels /\ label.kind = "ENDIF" /\ label.id = id
  BY <1>5 DEF Labels, Label
<1>7. /\ code \in CodeSet /\ ~RunsOff(code)
      /\ \A inst \in Jumps(code) : inst.target = label
  BY <1>6, LeavingCode
<1> HIDE DEF code, label
<1>8. Extended(code, label) /\ Len(blocks) \in Nat \ {0}
  BY <1>2, <1>3, <1>6, <1>7, ExtendFacts DEF IInv
<1>9. Typed'
  BY <1>1, <1>2, <1>3, <1>4, <1>8 DEF IInv, Typed, Extended
<1>10. IdsFresh'
  <2>1. \A k \in DOMAIN open' : open'[k].node \in {"if", "else"} =>
          k \in DOMAIN open /\ open[k].node \in {"if", "else"} /\ ids'[k] = ids[k]
    BY <1>4
  <2>2. \A k \in DOMAIN open : ids[k] \in Nat
    BY DEF IInv, Typed, WalkInv, WalkTyped
  <2> QED BY <1>2, <1>3, <2>1, <2>2 DEF IInv, IdsFresh, IsIf
<1>11. LabelsFresh' /\ JumpsGo' /\ BlocksLeft'
  <2>1. label.kind # "ENTRY" /\ label.id < blockCounter' /\ blockCounter' \in Nat
        /\ blockCounter' >= blockCounter /\ label.id \in Nat
    BY <1>2, <1>3, <1>5, <1>6
  <2>2. ~PendingIn(open', ids', label) /\ PendingIn(open, ids, label)
    BY <1>5, <1>6 DEF Pending
  <2>3. \A t : PendingIn(open, ids, t) => PendingIn(open', ids', t) \/ t = label
    BY <1>5 DEF Pending
  <2>4. \A t : PendingIn(open', ids', t) =>
          PendingIn(open, ids, t) \/ (t.kind # "ENTRY" /\ t.id >= blockCounter)
    BY <1>5 DEF Pending
  <2> QED BY <1>7, <1>8, <2>1, <2>2, <2>3, <2>4, ExtendedInv DEF IInv
<1>12. ProgramFinished'
  BY <1>2 DEF IInv, ProgramFinished
<1> QED BY <1>9, <1>10, <1>11, <1>12 DEF IInv

LEMMA BeginElseInv == ASSUME IInv, BeginElse PROVE IInv'
<1> DEFINE id == TopId
           label == Label("ELSE", id)
           last == Label("ENDIF", id)
           code == <<Inst("JMP", last)>>
           n == Len(open) - 1
           outer == [k \in 1..n |-> open[k]]
<1>1. /\ WalkInv' /\ Len(open) > 1 /\ Len(open') = Len(open) /\ SameUpTo(Len(open) - 1)
      /\ open[Len(open)].node = "if" /\ open[Len(open)].tight /\ IsIf(Len(open))
      /\ open'[Len(open)].node = "else"
  BY OpenElseWalk DEF IInv, Typed, BeginElse, IsIf
<1>2. /\ Start(Emit(code), label) /\ ids' = ids
      /\ blockCounter' = blockCounter /\ program' = program
  BY DEF BeginElse
<1>3. /\ open' # <<>> /\ open # <<>> /\ open' \in Seq(Frames) /\ n \in Nat
      /\ Len(open) = n + 1 /\ DOMAIN open' = 1..(n + 1) /\ DOMAIN open = 1..(n + 1)
      /\ blockCounter \in Nat
  BY <1>1 DEF WalkInv, WalkTyped, IInv, Typed
<1>4. \A k \in 1..n : open'[k].node = open[k].node /\ open'[k].tight = open[k].tight
  BY <1>1, <1>3 DEF SameUpTo
<1> HIDE DEF n
<1>5. DOMAIN outer = 1..n /\ \A k \in 1..n : outer[k] = open[k]
  OBVIOUS
<1> HIDE DEF outer
<1>6. /\ \A t : PendingIn(outer, ids, t) => Pending(t) /\ t.id # id
      /\ \A t : Pending(t) => PendingIn(outer, ids, t) \/ t = last \/ t = label
      /\ Pending(last)
      /\ id \in Nat /\ id < blockCounter
  BY <1>1, <1>3, <1>5, TopPending
<1>7. Pending(label)
  <2>1. n + 1 \in DOMAIN open /\ TopId = ids[n + 1]
    BY <1>3 DEF IInv, Typed, TopId
  <2> QED BY <1>1, <1>3, <2>1 DEF Pending, PendingIn
<1>8. \A t : PendingIn(open', ids', t) <=> PendingIn(outer, ids, t) \/ t = last
  <2>1. ids[n + 1] = id /\ n + 1 \in DOMAIN open' /\ ids' = ids
    BY <1>2, <1>3 DEF IInv, Typed, TopId
  <2>2. ASSUME NEW t, PendingIn(open', ids', t) PROVE PendingIn(outer, ids, t) \/ t = last
    <3>1. PICK k \in DOMAIN open' :
            \/ open'[k].node \in {"if", "else"} /\ t = Label("ENDIF", ids[k])
            \/ open'[k].node = "if" /\ open'[k].tight /\ t = Label("ELSE", ids[k])
      BY <2>1, <2>2 DEF PendingIn
    <3>2. CASE k = n + 1
      BY <1>1, <1>3, <2>1, <3>1, <3>2
    <3>3. CASE k \in 1..n
      BY <1>4, <1>5, <3>1, <3>3 DEF PendingIn
    <3> QED BY <1>3, <3>2, <3>3
  <2>3. ASSUME NEW t, PendingIn(outer, ids, t) PROVE PendingIn(open', ids', t)
    <3>1. PICK k \in 1..n :
            \/ open[k].node \in {"if", "else"} /\ t = Label("ENDIF", ids[k])
            \/ open[k].node = "if" /\ open[k].tight /\ t = Label("ELSE", ids[k])
      BY <1>5, <2>3 DEF PendingIn
    <3>2. k \in DOMAIN open'
      BY <1>3
    <3>3. open'[k].node = open[k].node /\ open'[k].tight = open[k].tight
      BY <1>4
    <3> QED BY <2>1, <3>1, <3>2, <3>3 DEF PendingIn
  <2>4. PendingIn(open', ids', last)
    BY <1>1, <1>3, <2>1 DEF PendingIn
  <2> QED BY <2>2, <2>3, <2>4
<1> HIDE DEF id
<1>9. /\ label \in Labels /\ label.kind = "ELSE" /\ label.id = id
      /\ last \in Labels /\ last.kind = "ENDIF" /\ last.id = id
  BY <1>6 DEF Labels, Label
<1>10. /\ code \in CodeSet /\ ~RunsOff(code)
       /\ \A inst \in Jumps(code) : inst.target = last
  BY <1>9, LeavingCode
<1> HIDE DEF code, label, last
<1>11. Extended(code, label) /\ Len(blocks) \in Nat \ {0}
  BY <1>2, <1>3, <1>9, <1>10, ExtendFacts DEF IInv
<1>12. Typed'
  BY <1>1, <1>2, <1>3, <1>11 DEF IInv, Typed, Extended
<1>13. IdsFresh'
  <2>1. \A k \in DOMAIN open' : k \in DOMAIN open /\ (open'[k].node \in {"if", "else"} =>
                                                      open[k].node \in {"if", "else"})
    <3>1. \A k \in 1..(n + 1) : k = n + 1 \/ k \in 1..n
      BY <1>3
    <3> QED BY <1>1, <1>3, <1>4, <3>1
  <2> QED BY <1>2, <2>1 DEF IInv, IdsFresh, IsIf
<1>14. LabelsFresh' /\ JumpsGo' /\ BlocksLeft'
  <2>1. label.kind # "ENTRY" /\ label.id < blockCounter' /\ blockCounter' \in Nat
        /\ blockCounter' >= blockCounter /\ label.id \in Nat
    BY <1>2, <1>3, <1>6, <1>9
  <2>2. ~PendingIn(open', ids', label) /\ PendingIn(open, ids, label)
    BY <1>6, <1>7, <1>8, <1>9 DEF Pending
  <2>3. \A t : PendingIn(open, ids, t) => PendingIn(open', ids', t) \/ t = label
    BY <1>6, <1>8 DEF Pending
  <2>4. \A t : PendingIn(open', ids', t) =>
          PendingIn(open, ids, t) \/ (t.kind # "ENTRY" /\ t.id >= blockCounter)
    BY <1>6, <1>8 DEF Pending
  <2>5. \A inst \in Jumps(code) : PendingIn(open', ids', inst.target) \/ inst.target = label
    BY <1>8, <1>10
  <2> QED BY <1>11, <2>1, <2>2, <2>3, <2>4, <2>5, ExtendedInv DEF IInv
<1>15. ProgramFinished'
  BY <1>2 DEF IInv, ProgramFinished
<1> QED BY <1>12, <1>13, <1>14, <1>15 DEF IInv

LEMMA StutterInv == ASSUME IInv, UNCHANGED vars PROVE IInv'
<1>1. UNCHANGED walkVars /\ UNCHANGED irVars
  BY DEF vars, walkVars, irVars
<1>2. Typed' /\ IdsFresh'
  BY <1>1 DEF IInv, Typed, WalkInv, WalkTyped, WalkShape, walkVars, irVars, IdsFresh, IsIf
<1>3. \A t : PendingIn(open', ids', t) <=> PendingIn(open, ids, t)
  BY <1>1 DEF walkVars, irVars
<1>4. LabelsFresh' /\ JumpsGo' /\ BlocksLeft'
  BY <1>1, <1>3, BlocksKept DEF IInv, irVars
<1>5. ProgramFinished'
  BY <1>1 DEF IInv, ProgramFinished, irVars
<1> QED BY <1>2, <1>4, <1>5 DEF IInv

LEMMA InitInv == Init => IInv
<1> SUFFICES ASSUME Init PROVE IInv OBVIOUS
<1>1. WalkInv /\ open = <<>>
  BY WalkInitInv DEF Init, WalkInit
<1>2. Typed
  BY <1>1 DEF Init, Typed
<1>3. IdsFresh /\ LabelsFresh /\ JumpsGo /\ BlocksLeft /\ ProgramFinished
  BY <1>1 DEF Init, IdsFresh, LabelsFresh, DistinctLabels, JumpsGo, BlocksLeft, ProgramFinished
<1> QED BY <1>2, <1>3 DEF IInv

LEMMA NextInv == IInv /\ [Next]_vars => IInv'
<1> SUFFICES ASSUME IInv, [Next]_vars PROVE IInv'
  OBVIOUS
<1>1. CASE TopLevel BY <1>1, TopLevelInv
<1>2. CASE BeginFunction BY <1>2, BeginFunctionInv
<1>3. CASE Statement BY <1>3, StatementInv
<1>4. CASE Return BY <1>4, ReturnInv
<1>5. CASE BeginBlock BY <1>5, BeginBlockInv
<1>6. CASE EndBlock BY <1>6, EndBlockInv
<1>7. CASE \E hasElse \in BOOLEAN : BeginIf(hasElse) BY <1>7, BeginIfInv
<1>8. CASE BeginElse BY <1>8, BeginElseInv
<1>9. CASE EndIf BY <1>9, EndIfInv
<1>10. CASE \E isVoid \in BOOLEAN : EndFunction(isVoid) BY <1>10, EndFunctionInv
<1>11. CASE Done BY <1>11, StutterInv DEF Done
<1>12. CASE UNCHANGED vars BY <1>12, StutterInv
<1> QED BY <1>1, <1>2, <1>3, <1>4, <1>5, <1>6, <1>7, <1>8, <1>9, <1>10, <1>11, <1>12 DEF Next

-----------------------------------------------------------------------------
(***************************************************************************)
(* The theorems.                                                           *)
(***************************************************************************)

(* What holds of the graph while it is built: every label that is still    *)
(* missing belongs to one open if statement (TranslateStmt(IfStmtNode)).   *)
THEOREM InductiveInvariant == Spec => []IInv
BY InitInv, NextInv, PTL DEF Spec

(* The translator's state has its type, in programs of any size.           *)
THEOREM TypeCorrect == Spec => []TypeOK
<1>1. IInv => TypeOK
  BY DEF IInv, Typed, WalkInv, WalkTyped, TypeOK
<1> QED BY <1>1, InductiveInvariant, PTL

(* The emit functions always write through a pointer to the newest block,  *)
(* the only one that emplace_back has not moved (TranslateStmt).           *)
THEOREM BlockPointerFresh == Spec => []CurrentBlockNewest
<1>1. IInv => CurrentBlockNewest
  BY DEF IInv, Typed, WalkInv, WalkTyped, CurrentBlockNewest
<1> QED BY <1>1, InductiveInvariant, PTL

(* However if statements are nested, no function has two blocks of one     *)
(* label (blockCounter in TranslateStmt(IfStmtNode)).                      *)
THEOREM OneBlockPerLabel == Spec => []LabelsUnique
<1>1. IInv => LabelsUnique
  BY DEF IInv, LabelsFresh, ProgramFinished, Finished, LabelsUnique
<1> QED BY <1>1, InductiveInvariant, PTL

(* Every jump of a finished function goes to a later block of it (emitJE,  *)
(* emitJMP).                                                               *)
THEOREM JumpsGoForward == Spec => []JumpsResolve
<1>1. IInv => JumpsResolve
  BY DEF IInv, ProgramFinished, Finished, Resolved, JumpsResolve
<1> QED BY <1>1, InductiveInvariant, PTL

(* No block of a finished function but the last runs into the one stored   *)
(* after it (TranslateStmt(IfStmtNode)).                                   *)
THEOREM BranchesLeave == Spec => []NoFallThrough
<1>1. IInv => NoFallThrough
  BY DEF IInv, ProgramFinished, Finished, NoFallThrough
<1> QED BY <1>1, InductiveInvariant, PTL

-----------------------------------------------------------------------------
(***************************************************************************)
(* Where control can go.                                                   *)
(***************************************************************************)

(* A set of numbers that has one has a smallest one: its initial segment   *)
(* is the smallest.                                                        *)
LEMMA SmallestNumber ==
  ASSUME NEW S \in SUBSET Nat, S # {}
  PROVE  \E n \in S : \A j \in S : n <= j
<1> DEFINE segments == {1..k : k \in S}
<1>1. segments \subseteq FiniteSubsetsOf(Nat)
  <2>1. ASSUME NEW k \in S PROVE 1..k \in FiniteSubsetsOf(Nat)
    <3>1. IsFiniteSet(1..k) BY FS_Interval
    <3> QED BY <3>1 DEF FiniteSubsetsOf
  <2> QED BY <2>1
<1>2. segments # {} OBVIOUS
<1> HIDE DEF segments
<1>3. PICK x \in segments : \A y \in segments : ~ (<<y, x>> \in StrictSubsetOrdering(Nat))
  BY <1>1, <1>2, FS_StrictSubsetOrderingWellFounded, WFMin
<1>4. PICK n \in S : x = 1..n
  BY DEF segments
<1>5. ASSUME NEW j \in S PROVE n <= j
  <2>1. 1..j \in segments BY DEF segments
  <2>2. SUFFICES ASSUME j < n PROVE FALSE OBVIOUS
  <2>3. 1..j \subseteq 1..n /\ 1..j # 1..n BY <2>2
  <2>4. 1..j \in SUBSET Nat /\ 1..n \in SUBSET Nat OBVIOUS
  <2> QED BY <1>3, <1>4, <2>1, <2>3, <2>4 DEF StrictSubsetOrdering
<1> QED BY <1>5

(* Induction up to a bound, on the set of numbers that have been reached.  *)
LEMMA UpTo ==
  ASSUME NEW n \in Nat, NEW S, 0 \in S, \A i \in 1..n : i - 1 \in S => i \in S
  PROVE  \A i \in 0..n : i \in S
<1> DEFINE left == {i \in 0..n : i \notin S}
<1> SUFFICES ASSUME left # {} PROVE FALSE
  OBVIOUS
<1>1. PICK m \in left : \A j \in left : m <= j
  <2>1. left \in SUBSET Nat OBVIOUS
  <2> HIDE DEF left
  <2> QED BY <2>1, SmallestNumber
<1>2. m \in 1..n /\ m - 1 \in 0..n /\ m - 1 \notin left
  BY <1>1
<1> QED BY <1>1, <1>2

(* What control can do after a block (the step of Exits).                  *)
After(before, block) ==
  IF {Follows, block.label} \cap before = {} THEN before
  ELSE (before \ {Follows}) \cup Leaves(block.code)

(* The exits of the first blocks, one after the other.                     *)
Traces(bs, e) ==
  /\ DOMAIN e = 0..Len(bs)
  /\ e[0] = {Follows}
  /\ \A i \in 1..Len(bs) : e[i] = After(e[i-1], bs[i])

ExitsOf(bs) ==
  CHOOSE e : e = [i \in 0..Len(bs) |->
    IF i = 0 THEN {Follows} ELSE UNION {After(before, bs[i]) : before \in {e[i-1]}}]

LEMMA ExitsAre == \A bs : Exits(bs) = ExitsOf(bs)[Len(bs)]
BY DEF Exits, ExitsOf, After

(* There is a trace of any list of blocks.                                 *)
LEMMA TraceExists ==
  ASSUME NEW n \in Nat, NEW bs, Len(bs) = n
  PROVE  \E e : Traces(bs, e)
<1> DEFINE Upto(m) == \E e : /\ DOMAIN e = 0..m
                             /\ e[0] = {Follows}
                             /\ \A i \in 1..m : e[i] = After(e[i-1], bs[i])
<1> DEFINE S == {m \in 0..n : Upto(m)}
<1>1. 0 \in S
  <2> DEFINE e == [i \in 0..0 |-> {Follows}]
  <2>1. DOMAIN e = 0..0 /\ e[0] = {Follows} /\ \A i \in 1..0 : e[i] = After(e[i-1], bs[i])
    OBVIOUS
  <2>2. Upto(0) BY <2>1
  <2> QED BY <2>2
<1>2. ASSUME NEW k \in 1..n, k - 1 \in S PROVE k \in S
  <2>1. PICK e : /\ DOMAIN e = 0..k-1
                 /\ e[0] = {Follows}
                 /\ \A i \in 1..k-1 : e[i] = After(e[i-1], bs[i])
    BY <1>2
  <2> DEFINE f == [i \in 0..k |-> IF i = k THEN After(e[k-1], bs[k]) ELSE e[i]]
  <2>2. DOMAIN f = 0..k /\ f[0] = {Follows}
    BY <2>1
  <2>3. ASSUME NEW i \in 1..k PROVE f[i] = After(f[i-1], bs[i])
    <3>1. i - 1 \in 0..k /\ i - 1 # k /\ f[i-1] = e[i-1]
      OBVIOUS
    <3>2. CASE i = k BY <3>1, <3>2
    <3>3. CASE i # k
      <4>1. i \in 1..k-1 /\ f[i] = e[i] BY <3>3
      <4> QED BY <4>1, <3>1, <2>1
    <3> QED BY <3>2, <3>3
  <2> HIDE DEF f
  <2>4. Upto(k) BY <2>2, <2>3
  <2> QED BY <2>4
<1> HIDE DEF Upto
<1>3. n \in 0..n OBVIOUS
<1>4. n \in S
  <2> HIDE DEF S
  <2> QED BY <1>1, <1>2, <1>3, UpTo
<1>5. Upto(n) BY <1>4
<1> QED BY <1>5 DEF Upto, Traces

(* The definition of Exits means what it says.                             *)
LEMMA ExitsTrace ==
  ASSUME NEW n \in Nat, NEW bs, Len(bs) = n
  PROVE  Traces(bs, ExitsOf(bs))
<1> DEFINE Eq(e) == e = [i \in 0..Len(bs) |->
             IF i = 0 THEN {Follows} ELSE UNION {After(before, bs[i]) : before \in {e[i-1]}}]
<1>1. PICK e : Traces(bs, e) BY TraceExists
<1>2. ASSUME NEW x, NEW b PROVE UNION {After(before, b) : before \in {x}} = After(x, b)
  OBVIOUS
<1>3. \E d : Eq(d)
  <2> DEFINE d == [i \in 0..n |-> e[i]]
  <2>1. \A i \in 0..n : d[i] = IF i = 0 THEN {Follows} ELSE After(d[i-1], bs[i])
    BY <1>1 DEF Traces
  <2>2. \A i \in 0..n : d[i] = IF i = 0 THEN {Follows}
                               ELSE UNION {After(before, bs[i]) : before \in {d[i-1]}}
    BY <2>1, <1>2
  <2> HIDE DEF d
  <2>3. DOMAIN d = 0..n /\ d = [i \in 0..n |-> d[i]] BY DEF d
  <2> QED BY <2>2, <2>3
<1>4. Eq(ExitsOf(bs)) BY <1>3 DEF ExitsOf
<1> DEFINE x == ExitsOf(bs)
<1> HIDE DEF x
<1>5. x = [i \in 0..n |-> IF i = 0 THEN {Follows} ELSE UNION {After(before, bs[i]) : before \in {x[i-1]}}]
  BY <1>4 DEF x
<1>6. \A i \in 0..n : x[i] = IF i = 0 THEN {Follows} ELSE UNION {After(before, bs[i]) : before \in {x[i-1]}}
  BY <1>5
<1>7. \A i \in 0..n : x[i] = IF i = 0 THEN {Follows} ELSE After(x[i-1], bs[i])
  BY <1>2, <1>6
<1>8. DOMAIN x = 0..n BY ONLY <1>5
<1>9. Traces(bs, x) BY <1>7, <1>8 DEF Traces
<1> QED BY <1>9 DEF x

(* Two lists that begin with the same blocks have the same exits there.    *)
LEMMA SamePrefix ==
  ASSUME NEW bs, NEW cs, NEW d, NEW e, Traces(bs, d), Traces(cs, e), NEW n \in Nat,
         Len(bs) \in Nat, Len(cs) \in Nat, n <= Len(bs), n <= Len(cs),
         \A i \in 1..n : bs[i] = cs[i]
  PROVE  d[n] = e[n]
<1> DEFINE S == {m \in 0..n : d[m] = e[m]}
<1>1. 0 \in S
  <2>1. d[0] = {Follows} /\ e[0] = {Follows} BY DEF Traces
  <2>2. 0 \in 0..n OBVIOUS
  <2> QED BY <2>1, <2>2
<1>2. ASSUME NEW k \in 1..n, k - 1 \in S PROVE k \in S
  <2>1. k \in 1..Len(bs) /\ k \in 1..Len(cs) OBVIOUS
  <2>2. d[k] = After(d[k-1], bs[k]) /\ e[k] = After(e[k-1], cs[k])
    BY <2>1 DEF Traces
  <2> QED BY <1>2, <2>2
<1>3. n \in S
  <2>1. n \in 0..n OBVIOUS
  <2> HIDE DEF S
  <2> QED BY <1>1, <1>2, <2>1, UpTo
<1> QED BY <1>3

(* A block more.                                                           *)
LEMMA ExitsAppend ==
  ASSUME NEW bs \in Seq(BlockSet), NEW b \in BlockSet
  PROVE  Exits(Append(bs, b)) = After(Exits(bs), b)
<1> DEFINE cs == Append(bs, b)  n == Len(bs)
<1>1. n \in Nat /\ Len(cs) = n + 1 /\ cs[n+1] = b /\ \A i \in 1..n : bs[i] = cs[i]
  OBVIOUS
<1> HIDE DEF cs, n
<1>2. Traces(cs, ExitsOf(cs)) /\ Traces(bs, ExitsOf(bs))
  BY <1>1, ExitsTrace DEF n
<1>3. ExitsOf(bs)[n] = ExitsOf(cs)[n]
  <2>1. Len(bs) = n BY DEF n
  <2> QED BY <1>1, <1>2, <2>1, SamePrefix
<1>4. ExitsOf(cs)[n+1] = After(ExitsOf(cs)[n], b)
  <2>1. n + 1 \in 1..Len(cs) /\ n + 1 - 1 = n BY <1>1
  <2> QED BY <1>1, <1>2, <2>1 DEF Traces
<1> QED BY <1>1, <1>3, <1>4, ExitsAre DEF cs, n

LEMMA NoBlockExits == Exits(<<>>) = {Follows}
<1>1. Len(<<>>) = 0 OBVIOUS
<1>2. Traces(<<>>, ExitsOf(<<>>)) BY <1>1, ExitsTrace
<1> QED BY <1>1, <1>2, ExitsAre DEF Traces

(* Where the code can be left once more is appended to it.                 *)
NamedCode(code) == \A inst \in Jumps(code) : inst.target # NoLabel

LEMMA LeavesOfConcat ==
  ASSUME NEW c \in CodeSet, NEW d \in CodeSet, NamedCode(c)
  PROVE  Leaves(c \o d) = IF Follows \in Leaves(c) THEN (Leaves(c) \ {Follows}) \cup Leaves(d)
                                                   ELSE Leaves(c)
<1> DEFINE e == c \o d  m == Len(c)
<1>1. /\ e \in CodeSet /\ m \in Nat /\ Len(d) \in Nat /\ Len(e) = m + Len(d)
      /\ DOMAIN e = 1..Len(e) /\ DOMAIN c = 1..m /\ DOMAIN d = 1..Len(d)
      /\ \A i \in 1..m : e[i] = c[i]
      /\ \A i \in 1..Len(d) : e[m + i] = d[i]
      /\ \A i \in 1..Len(e) : i \in 1..m \/ (i - m \in 1..Len(d) /\ e[i] = d[i - m])
  <2>1. /\ c \o d \in CodeSet
        /\ Len(c \o d) = Len(c) + Len(d)
        /\ \A i \in 1..Len(c) + Len(d) : (c \o d)[i] = IF i <= Len(c) THEN c[i] ELSE d[i - Len(c)]
    BY DEF CodeSet
  <2> QED BY <2>1 DEF CodeSet
<1> HIDE DEF e, m
<1> DEFINE T(code) == {code[k].target : k \in {j \in Executed(code) : code[j].op # "RET"}}
<1>2. \A code : Leaves(code) = T(code) \cup (IF RunsOff(code) THEN {Follows} ELSE {})
  BY DEF Leaves
<1>3. Follows \notin T(c)
  BY <1>1 DEF Executed, NamedCode, Jumps, Follows
<1>4. Follows \in Leaves(c) <=> RunsOff(c)
  BY <1>2, <1>3
<1>5. \A i \in 1..m : i \in Executed(e) <=> i \in Executed(c)
  <2> SUFFICES ASSUME NEW i \in 1..m PROVE i \in Executed(e) <=> i \in Executed(c)
    OBVIOUS
  <2>1. \A j \in 1..i-1 : e[j] = c[j] BY <1>1
  <2> QED BY <1>1, <2>1 DEF Executed
<1>6. CASE ~RunsOff(c)
  <2>1. PICK s \in 1..m : c[s].op # "JZ" BY <1>1, <1>6 DEF RunsOff
  <2>2. \A i \in 1..Len(e) : i > m => i \notin Executed(e)
    BY <1>1, <2>1 DEF Executed
  <2>3. Executed(e) = Executed(c)
    BY <1>1, <1>5, <2>2 DEF Executed
  <2>4. T(e) = T(c)
    <3>1. \A k \in Executed(c) : e[k] = c[k] BY <1>1 DEF Executed
    <3>2. {j \in Executed(e) : e[j].op # "RET"} = {j \in Executed(c) : c[j].op # "RET"}
      BY ONLY <2>3, <3>1
    <3> QED BY ONLY <2>3, <3>1, <3>2
  <2>5. ~RunsOff(e)
    <3>1. s \in DOMAIN e /\ e[s] = c[s] BY <1>1
    <3> QED BY <2>1, <3>1 DEF RunsOff
  <2> HIDE DEF T
  <2> QED BY <1>2, <1>4, <1>6, <2>4, <2>5 DEF e
<1>7. CASE RunsOff(c)
  <2>1. \A i \in 1..Len(d) : m + i \in Executed(e) <=> i \in Executed(d)
    <3> TAKE i \in 1..Len(d)
    <3>4. PICK x \in Nat : x = m + i BY <1>1
    <3>1. ASSUME x \in Executed(e), NEW j \in 1..i-1 PROVE d[j].op = "JZ"
      <4>1. m + j \in 1..x-1 /\ j \in 1..Len(d) BY <1>1, <3>4
      <4> QED BY <1>1, <3>1, <4>1 DEF Executed
    <3>2. ASSUME i \in Executed(d), NEW j \in 1..x-1 PROVE e[j].op = "JZ"
      <4>1. CASE j \in 1..m BY <1>1, <1>7, <4>1 DEF RunsOff
      <4>2. CASE j \notin 1..m
        <5>1. j - m \in 1..i-1 /\ e[j] = d[j - m] BY <1>1, <3>4, <4>2
        <5> QED BY <3>2, <5>1 DEF Executed
      <4> QED BY <4>1, <4>2
    <3>3. m + i \in DOMAIN e /\ i \in DOMAIN d BY <1>1
    <3>5. x \in Executed(e) <=> \A j \in 1..x-1 : e[j].op = "JZ"
      <4>1. x \in DOMAIN e BY <3>3, <3>4
      <4> QED BY ONLY <4>1 DEF Executed
    <3>6. i \in Executed(d) <=> \A j \in 1..i-1 : d[j].op = "JZ" BY <3>3 DEF Executed
    <3> QED BY ONLY <3>1, <3>2, <3>4, <3>5, <3>6
  <2>2. ASSUME NEW t \in T(e) PROVE t \in T(c) \cup T(d)
    <3>1. PICK k \in Executed(e) : e[k].op # "RET" /\ t = e[k].target BY <2>2
    <3>2. k \in 1..Len(e) BY <1>1, <3>1 DEF Executed
    <3>3. CASE k \in 1..m BY <1>1, <1>5, <3>1, <3>3
    <3>4. CASE k \notin 1..m
      <4>1. k - m \in 1..Len(d) /\ e[k] = d[k - m] /\ m + (k - m) = k BY <1>1, <3>2, <3>4
      <4>2. k - m \in Executed(d) BY <2>1, <4>1
      <4> QED BY <3>1, <4>1, <4>2
    <3> QED BY <3>3, <3>4
  <2>3. ASSUME NEW t \in T(c) PROVE t \in T(e)
    <3>1. PICK k \in Executed(c) : c[k].op # "RET" /\ t = c[k].target BY <2>3
    <3>2. k \in 1..m BY <1>1, <3>1 DEF Executed
    <3> QED BY <1>1, <1>5, <3>1, <3>2
  <2>4. ASSUME NEW t \in T(d) PROVE t \in T(e)
    <3>1. PICK k \in Executed(d) : d[k].op # "RET" /\ t = d[k].target BY <2>4
    <3>2. k \in 1..Len(d) BY <1>1, <3>1 DEF Executed
    <3> QED BY <1>1, <2>1, <3>1, <3>2
  <2>5. T(e) = T(c) \cup T(d) BY ONLY <2>2, <2>3, <2>4
  <2>6. RunsOff(e) <=> RunsOff(d)
    BY <1>1, <1>7 DEF RunsOff
  <2> HIDE DEF T
  <2> QED BY <1>2, <1>3, <1>4, <1>7, <2>5, <2>6 DEF e
<1> QED BY <1>6, <1>7

(* Instructions more in the last block.                                    *)
LEMMA ExitsEmit ==
  ASSUME NEW bs \in Seq(BlockSet), NEW cs, NEW n \in Nat, n > 0, Len(bs) = n, Len(cs) = n,
         \A i \in 1..n-1 : cs[i] = bs[i],
         NEW d \in CodeSet, cs[n].label = bs[n].label, cs[n].code = bs[n].code \o d,
         bs[n].label # NoLabel, NamedCode(bs[n].code)
  PROVE  Exits(cs) = IF Follows \in Exits(bs) THEN (Exits(bs) \ {Follows}) \cup Leaves(d)
                                              ELSE Exits(bs)
<1> DEFINE e == ExitsOf(bs)  f == ExitsOf(cs)
<1>1. Traces(bs, e) /\ Traces(cs, f)
  BY ExitsTrace
<1> HIDE DEF e, f
<1>2. e[n-1] = f[n-1]
  <2>1. n - 1 \in Nat /\ n - 1 <= Len(bs) /\ n - 1 <= Len(cs) /\ \A i \in 1..n-1 : bs[i] = cs[i]
    OBVIOUS
  <2> QED BY <1>1, <2>1, SamePrefix
<1>3. e[n] = After(e[n-1], bs[n]) /\ f[n] = After(e[n-1], cs[n])
  <2>1. n \in 1..n OBVIOUS
  <2> QED BY <1>1, <1>2, <2>1 DEF Traces
<1>4. bs[n].code \in CodeSet
  <2>1. bs[n] \in BlockSet OBVIOUS
  <2> QED BY <2>1 DEF BlockSet, CodeSet
<1>5. Leaves(cs[n].code) = IF Follows \in Leaves(bs[n].code)
                           THEN (Leaves(bs[n].code) \ {Follows}) \cup Leaves(d) ELSE Leaves(bs[n].code)
  BY <1>4, LeavesOfConcat
<1>6. f[n] = IF Follows \in e[n] THEN (e[n] \ {Follows}) \cup Leaves(d) ELSE e[n]
  <2> DEFINE b == e[n-1]  L == Leaves(bs[n].code)  M == Leaves(cs[n].code)
  <2>1. CASE {Follows, bs[n].label} \cap b = {}
    BY <1>3, <2>1 DEF After
  <2>2. CASE {Follows, bs[n].label} \cap b # {}
    <3>1. e[n] = (b \ {Follows}) \cup L /\ f[n] = (b \ {Follows}) \cup M
      BY <1>3, <2>2 DEF After
    <3> HIDE DEF b, L, M
    <3>2. M = IF Follows \in L THEN (L \ {Follows}) \cup Leaves(d) ELSE L
      BY <1>5 DEF L, M
    <3> QED BY <3>1, <3>2
  <2> QED BY <2>1, <2>2
<1>7. Exits(bs) = e[n] /\ Exits(cs) = f[n] BY ExitsAre DEF e, f
<1> QED BY <1>6, <1>7

LEMMA LeavesFacts ==
  /\ Leaves(<<>>) = {Follows}
  /\ \A t : Leaves(<<Inst("RET", t)>>) = {}
  /\ \A t : Leaves(<<Inst("JMP", t)>>) = {t}
  /\ \A t, u : Leaves(<<Inst("JZ", t), Inst("JMP", u)>>) = {t, u}
<1>1. Leaves(<<>>) = {Follows}
  BY DEF Leaves, Executed, RunsOff
<1>2. ASSUME NEW t PROVE Leaves(<<Inst("RET", t)>>) = {}
  <2> DEFINE c == <<Inst("RET", t)>>
  <2>1. DOMAIN c = {1} /\ c[1].op = "RET" BY DEF Inst
  <2> HIDE DEF c
  <2>2. Leaves(c) = {} BY <2>1 DEF Leaves, Executed, RunsOff
  <2> QED BY <2>2 DEF c
<1>3. ASSUME NEW t PROVE Leaves(<<Inst("JMP", t)>>) = {t}
  <2> DEFINE c == <<Inst("JMP", t)>>
  <2>1. DOMAIN c = {1} /\ c[1].op = "JMP" /\ c[1].target = t BY DEF Inst
  <2> HIDE DEF c
  <2>2. Executed(c) = {1} BY <2>1 DEF Executed
  <2>3. {c[k].target : k \in {j \in Executed(c) : c[j].op # "RET"}} = {t} BY <2>1, <2>2
  <2>4. ~RunsOff(c) BY <2>1 DEF RunsOff
  <2>5. Leaves(c) = {t} BY <2>3, <2>4 DEF Leaves
  <2> QED BY <2>5 DEF c
<1>4. ASSUME NEW t, NEW u PROVE Leaves(<<Inst("JZ", t), Inst("JMP", u)>>) = {t, u}
  <2> DEFINE c == <<Inst("JZ", t), Inst("JMP", u)>>
  <2>1. DOMAIN c = {1, 2} /\ c[1].op = "JZ" /\ c[2].op = "JMP" /\ c[1].target = t /\ c[2].target = u
    BY DEF Inst
  <2> HIDE DEF c
  <2>2. Executed(c) = {1, 2} BY <2>1 DEF Executed
  <2>3. {c[k].target : k \in {j \in Executed(c) : c[j].op # "RET"}} = {t, u} BY <2>1, <2>2
  <2>4. ~RunsOff(c) BY <2>1 DEF RunsOff
  <2>5. Leaves(c) = {t, u} BY <2>3, <2>4 DEF Leaves
  <2> QED BY <2>5 DEF c
<1> QED BY <1>1, <1>2, <1>3, <1>4

-----------------------------------------------------------------------------
(***************************************************************************)
(* What can be reached, as the stack of open statements has it.            *)
(***************************************************************************)

(* None of the statements up to depth k is known to return.                *)
Silent(stack, k) == \A i \in 1..k : ~stack[i].has

HereReached(exits, stack) == Follows \in exits <=> Silent(stack, Len(stack))

(* The labels of an open if statement: control comes to the one of the     *)
(* second branch if it comes to the statement, and waits at the end if it  *)
(* goes there past the branch that is being visited.                       *)
IfReached(exits, stack, numbers, k) ==
  /\ stack[k].node = "if" =>
       /\ Label("ELSE", numbers[k]) \in exits <=> (stack[k].tight /\ Silent(stack, k - 1))
       /\ Label("ENDIF", numbers[k]) \in exits <=> (~stack[k].tight /\ Silent(stack, k - 1))
  /\ stack[k].node = "else" =>
       /\ Label("ELSE", numbers[k]) \in exits <=> Silent(stack, k - 1)
       /\ Label("ENDIF", numbers[k]) \in exits <=> (~stack[k].ifHas /\ Silent(stack, k - 1))

Named(bs) == \A i \in DOMAIN bs : NamedCode(bs[i].code) /\ bs[i].label # NoLabel

(* Control waits at no label that has not been handed out.                 *)
KnownLabels(exits, counter) ==
  \A l \in exits : l = Follows \/ (l.kind # "NONE" /\ l.id \in Nat /\ l.id < counter)

Reach ==
  /\ Named(blocks)
  /\ KnownLabels(Exits(blocks), blockCounter)
  /\ open # <<>> => HereReached(Exits(blocks), open)
  /\ \A k \in 1..Len(open) : IfReached(Exits(blocks), open, ids, k)
  /\ ValuesReturned

(* Two statements of a stack, of which hasReturn of the part visited may   *)
(* differ.                                                                 *)
Like(s, t) == s.node = t.node /\ s.tight = t.tight /\ s.ifHas = t.ifHas

LEMMA FilledLike ==
  ASSUME open \in Seq(Frames), open # <<>>
  PROVE  \A i \in 1..Len(open) : Like(Filled[i], open[i]) /\ Filled[i].has = open[i].has
<1>1. Len(open) \in Nat \ {0} /\ Top \in Frames
  BY OuterFacts
<1>2. Outer \in Seq(Frames) /\ Len(Outer) = Len(open) - 1
      /\ \A i \in 1..Len(open)-1 : Outer[i] = open[i]
  BY OuterFacts
<1> DEFINE top == [Top EXCEPT !.full = (Top.node # "block")]
<1>3. top \in Frames /\ Like(top, Top) /\ top.has = Top.has
  BY <1>1 DEF Frames, Like
<1> HIDE DEF top
<1>4. Filled = Append(Outer, top)
  BY DEF Filled, top
<1>5. /\ \A i \in 1..Len(open)-1 : Filled[i] = open[i]
      /\ Filled[Len(open)] = top
  BY <1>1, <1>2, <1>3, <1>4
<1>6. \A i \in 1..Len(open)-1 : Like(Filled[i], open[i]) /\ Filled[i].has = open[i].has
  BY <1>5 DEF Like
<1>7. Like(Filled[Len(open)], open[Len(open)]) /\ Filled[Len(open)].has = open[Len(open)].has
  BY <1>3, <1>5 DEF Top
<1> QED BY <1>1, <1>6, <1>7

LEMMA GiveLike ==
  ASSUME NEW stack \in Seq(Frames), NEW n \in Nat, n > 0, Len(stack) = n, NEW has \in BOOLEAN
  PROVE  /\ Give(stack, has) \in Seq(Frames)
         /\ Len(Give(stack, has)) = n
         /\ \A i \in 1..n : Like(Give(stack, has)[i], stack[i])
         /\ \A i \in 1..n-1 : Give(stack, has)[i].has = stack[i].has
         /\ Give(stack, has)[n].has <=> (stack[n].has \/ has)
<1>1. n \in DOMAIN stack /\ stack[n] \in Frames
  OBVIOUS
<1> DEFINE top == [stack[n] EXCEPT !.has = @ \/ has]
<1>2. top \in Frames /\ Like(top, stack[n]) /\ (top.has <=> (stack[n].has \/ has))
  BY <1>1 DEF Frames, Like
<1> HIDE DEF top
<1>3. Give(stack, has) = [stack EXCEPT ![n] = top]
  BY DEF Give, top
<1>4. /\ Give(stack, has) \in Seq(Frames)
      /\ Len(Give(stack, has)) = n
      /\ \A i \in 1..n-1 : Give(stack, has)[i] = stack[i]
      /\ Give(stack, has)[n] = top
  BY <1>1, <1>2, <1>3
<1> QED BY <1>2, <1>4 DEF Like

(* What is known of an open statement depends on its own labels, and on    *)
(* the statements around it.                                               *)
LEMMA IfKept ==
  ASSUME NEW x, NEW y, NEW s, NEW t, NEW m, NEW l, NEW k \in Nat, IfReached(x, s, m, k),
         Like(t[k], s[k]), \A i \in 1..k-1 : t[i].has = s[i].has, l[k] = m[k],
         s[k].node \in {"if", "else"} =>
           /\ Label("ENDIF", m[k]) \in y <=> Label("ENDIF", m[k]) \in x
           /\ Label("ELSE", m[k]) \in y <=> Label("ELSE", m[k]) \in x
  PROVE  IfReached(y, t, l, k)
<1>1. Silent(t, k - 1) <=> Silent(s, k - 1) BY DEF Silent
<1> QED BY <1>1 DEF IfReached, Like

(* Instructions appended to the current block.                             *)
LEMMA EmitReach ==
  ASSUME Typed, Named(blocks), open # <<>>, NEW d \in CodeSet, NamedCode(d)
  PROVE  /\ Exits(Emit(d)) = IF Follows \in Exits(blocks)
                             THEN (Exits(blocks) \ {Follows}) \cup Leaves(d) ELSE Exits(blocks)
         /\ Named(Emit(d)) /\ Emit(d) \in Seq(BlockSet)
<1> DEFINE n == Len(blocks)  cs == Emit(d)
<1>1. /\ cs \in Seq(BlockSet) /\ Len(cs) = n /\ n \in Nat \ {0}
      /\ \A i \in 1..n : cs[i].label = blocks[i].label
      /\ \A i \in 1..n-1 : cs[i].code = blocks[i].code
      /\ cs[n].code = blocks[n].code \o d
  BY EmitFacts
<1>2. blocks \in Seq(BlockSet) BY DEF Typed
<1> HIDE DEF cs
<1>3. \A i \in 1..n-1 : cs[i] = blocks[i]
  <2> SUFFICES ASSUME NEW i \in 1..n-1 PROVE cs[i] = blocks[i]
    OBVIOUS
  <2>1. i \in 1..n BY <1>1
  <2>2. cs[i] \in BlockSet /\ blocks[i] \in BlockSet BY <1>1, <1>2, <2>1
  <2>3. cs[i] = [label |-> cs[i].label, code |-> cs[i].code]
        /\ blocks[i] = [label |-> blocks[i].label, code |-> blocks[i].code]
    BY <2>2 DEF BlockSet
  <2> QED BY <1>1, <2>1, <2>3
<1>4. n \in DOMAIN blocks /\ DOMAIN blocks = 1..n /\ DOMAIN cs = 1..n
  BY <1>1, <1>2
<1>5. blocks[n].label # NoLabel /\ NamedCode(blocks[n].code)
  BY <1>4 DEF Named
<1>6. Exits(cs) = IF Follows \in Exits(blocks)
                  THEN (Exits(blocks) \ {Follows}) \cup Leaves(d) ELSE Exits(blocks)
  <2>1. n \in Nat /\ n > 0 /\ Len(blocks) = n /\ cs[n].label = blocks[n].label BY <1>1
  <2> HIDE DEF n
  <2> QED BY <1>1, <1>2, <1>3, <1>5, <2>1, ExitsEmit
<1>7. blocks[n].code \in CodeSet
  <2>1. blocks[n] \in BlockSet BY <1>2, <1>4
  <2> QED BY <2>1 DEF BlockSet, CodeSet
<1>8. NamedCode(cs[n].code)
  <2>1. Jumps(cs[n].code) \subseteq Jumps(blocks[n].code) \cup Jumps(d) BY <1>1, <1>7, JumpsOfConcat
  <2> QED BY <1>5, <2>1 DEF NamedCode
<1>9. Named(cs)
  <2> SUFFICES ASSUME NEW i \in 1..n PROVE NamedCode(cs[i].code) /\ cs[i].label # NoLabel
    BY <1>4 DEF Named
  <2>1. CASE i = n BY <1>1, <1>5, <1>8, <2>1
  <2>2. CASE i # n
    <3>1. cs[i] = blocks[i] BY <1>1, <1>3, <2>2
    <3> QED BY <1>4, <3>1 DEF Named
  <2> QED BY <2>1, <2>2
<1> QED BY <1>1, <1>6, <1>9 DEF cs

(* A block more, reached by the label's jumps or from the one before it.   *)
LEMMA StartReach ==
  ASSUME NEW bs \in Seq(BlockSet), Named(bs), NEW label \in Labels, label # NoLabel,
         Start(bs, label)
  PROVE  /\ Exits(blocks') = IF Follows \in Exits(bs) \/ label \in Exits(bs)
                             THEN Exits(bs) \cup {Follows} ELSE Exits(bs)
         /\ Named(blocks')
<1> DEFINE b == Block(label)
<1>1. b \in BlockSet /\ b.label = label /\ b.code = <<>> /\ blocks' = Append(bs, b)
  BY DEF Block, BlockSet, Start
<1> HIDE DEF b
<1>2. Exits(blocks') = After(Exits(bs), b)
  BY <1>1, ExitsAppend
<1>3. Leaves(b.code) = {Follows} BY <1>1, LeavesFacts
<1>4. After(Exits(bs), b) = IF Follows \in Exits(bs) \/ label \in Exits(bs)
                             THEN Exits(bs) \cup {Follows} ELSE Exits(bs)
  BY <1>1, <1>3 DEF After
<1>5. NamedCode(<<>>) BY DEF NamedCode, Jumps
<1>6. Named(blocks')
  <2>1. /\ DOMAIN blocks' = 1..Len(bs)+1 /\ DOMAIN bs = 1..Len(bs) /\ Len(bs) \in Nat
        /\ \A i \in 1..Len(bs) : blocks'[i] = bs[i]
        /\ blocks'[Len(bs)+1] = b
    BY <1>1
  <2> QED BY <1>1, <1>5, <2>1 DEF Named
<1> QED BY <1>2, <1>4, <1>6

-----------------------------------------------------------------------------
(***************************************************************************)
(* The steps.                                                              *)
(***************************************************************************)
LEMMA TopLevelReach == ASSUME IInv, Reach, TopLevel PROVE Reach'
BY DEF TopLevel, VisitTopLevel, irVars, Reach, ValuesReturned

LEMMA StutterReach == ASSUME Reach, UNCHANGED vars PROVE Reach'
BY DEF vars, Reach, ValuesReturned

LEMMA BeginFunctionReach == ASSUME IInv, Reach, BeginFunction PROVE Reach'
<1>1. open' = <<Frame("func", FALSE, FALSE)>> /\ Start(<<>>, Label("ENTRY", 0))
      /\ ids' = <<0>> /\ blockCounter' = blockCounter /\ program' = program
  BY DEF BeginFunction, OpenFunction
<1>2. Label("ENTRY", 0) \in Labels /\ Label("ENTRY", 0) # NoLabel
  <2>1. Label("ENTRY", 0) \in Labels BY DEF Label, Labels
  <2> QED BY <2>1, LabelFacts DEF NoLabel
<1>3. <<>> \in Seq(BlockSet) /\ Named(<<>>) BY DEF Named
<1>4. Exits(blocks') = {Follows} /\ Named(blocks')
  <2>1. /\ Exits(blocks') = IF Follows \in Exits(<<>>) \/ Label("ENTRY", 0) \in Exits(<<>>)
                             THEN Exits(<<>>) \cup {Follows} ELSE Exits(<<>>)
        /\ Named(blocks')
    BY ONLY <1>1, <1>2, <1>3, StartReach
  <2> QED BY <2>1, NoBlockExits
<1>5. Len(open') = 1 /\ open'[1].node = "func" /\ ~open'[1].has
  BY <1>1 DEF Frame
<1>6. HereReached(Exits(blocks'), open') BY <1>4, <1>5 DEF HereReached, Silent
<1>7. \A k \in 1..Len(open') : IfReached(Exits(blocks'), open', ids', k)
  BY <1>5 DEF IfReached
<1>8. KnownLabels(Exits(blocks'), blockCounter') BY <1>4 DEF KnownLabels
<1>9. ValuesReturned' BY <1>1 DEF Reach, ValuesReturned
<1> QED BY <1>4, <1>6, <1>7, <1>8, <1>9 DEF Reach

LEMMA VisitStatementLike ==
  ASSUME WalkInv, NEW isReturn \in BOOLEAN, VisitStatement(isReturn)
  PROVE  /\ Len(open) \in Nat \ {0} /\ open # <<>> /\ Len(open') = Len(open)
         /\ \A k \in 1..Len(open) : Like(open'[k], open[k])
         /\ \A k \in 1..Len(open)-1 : open'[k].has = open[k].has
         /\ open'[Len(open)].has <=> (open[Len(open)].has \/ isReturn)
<1>1. open \in Seq(Frames) /\ open # <<>> /\ open' = Give(Filled, isReturn)
  BY DEF VisitStatement, Accepts, WalkInv, WalkTyped
<1>2. Filled \in Seq(Frames) /\ Len(Filled) = Len(open) /\ Len(open) \in Nat \ {0}
  BY <1>1, FilledFacts, OuterFacts
<1>3. \A i \in 1..Len(open) : Like(Filled[i], open[i]) /\ Filled[i].has = open[i].has
  BY <1>1, FilledLike
<1>4. /\ Len(open') = Len(open)
      /\ \A i \in 1..Len(open) : Like(open'[i], Filled[i])
      /\ \A i \in 1..Len(open)-1 : open'[i].has = Filled[i].has
      /\ open'[Len(open)].has <=> (Filled[Len(open)].has \/ isReturn)
  <2>1. Len(open) \in Nat /\ Len(open) > 0 BY <1>2
  <2> QED BY <1>1, <1>2, <2>1, GiveLike
<1>5. Len(open) \in 1..Len(open) /\ \A i \in 1..Len(open)-1 : i \in 1..Len(open) BY <1>2
<1> QED BY <1>1, <1>2, <1>3, <1>4, <1>5 DEF Like

LEMMA StatementReach == ASSUME IInv, Reach, Statement PROVE Reach'
<1>1. /\ Len(open) \in Nat \ {0} /\ open # <<>> /\ Len(open') = Len(open)
      /\ \A k \in 1..Len(open) : Like(open'[k], open[k])
      /\ \A k \in 1..Len(open)-1 : open'[k].has = open[k].has
      /\ open'[Len(open)].has <=> (open[Len(open)].has \/ FALSE)
  BY VisitStatementLike DEF Statement, IInv, Typed
<1>2. blocks' = blocks /\ ids' = ids /\ blockCounter' = blockCounter /\ program' = program
  BY DEF Statement, irVars
<1>3. \A k \in 1..Len(open) : open'[k].has <=> open[k].has
  <2>1. \A k \in 1..Len(open) : k = Len(open) \/ k \in 1..Len(open)-1 BY <1>1
  <2> QED BY <1>1, <2>1
<1>4. \A k \in 1..Len(open) : IfReached(Exits(blocks), open', ids, k)
  <2> SUFFICES ASSUME NEW k \in 1..Len(open) PROVE IfReached(Exits(blocks), open', ids, k)
    OBVIOUS
  <2>1. IfReached(Exits(blocks), open, ids, k) BY DEF Reach
  <2>2. \A i \in 1..k-1 : open'[i].has = open[i].has BY <1>1
  <2> QED BY <1>1, <2>1, <2>2, IfKept
<1>5. HereReached(Exits(blocks), open') BY <1>1, <1>3 DEF Reach, HereReached, Silent
<1> QED BY <1>1, <1>2, <1>4, <1>5 DEF Reach, ValuesReturned

LEMMA ReturnReach == ASSUME IInv, Reach, Return PROVE Reach'
<1> DEFINE x == Exits(blocks)  y == Exits(blocks')
<1>1. /\ Len(open) \in Nat \ {0} /\ open # <<>> /\ Len(open') = Len(open)
      /\ \A k \in 1..Len(open) : Like(open'[k], open[k])
      /\ \A k \in 1..Len(open)-1 : open'[k].has = open[k].has
      /\ open'[Len(open)].has <=> (open[Len(open)].has \/ TRUE)
  BY VisitStatementLike DEF Return, IInv, Typed
<1>2. blocks' = Emit(<<Inst("RET", NoLabel)>>) /\ ids' = ids /\ blockCounter' = blockCounter
      /\ program' = program
  BY DEF Return
<1>3. <<Inst("RET", NoLabel)>> \in CodeSet /\ NamedCode(<<Inst("RET", NoLabel)>>)
  BY DEF Inst, NoLabel, Label, Labels, CodeSet, NamedCode, Jumps
<1>4. y = (IF Follows \in x THEN (x \ {Follows}) \cup {} ELSE x) /\ Named(blocks')
  BY <1>1, <1>2, <1>3, EmitReach, LeavesFacts DEF IInv, Reach
<1> HIDE DEF x, y
<1>5. \A l : l \in y <=> l \in x /\ l # Follows BY <1>4
<1>6. KnownLabels(y, blockCounter) BY <1>5 DEF Reach, KnownLabels, x
<1>7. HereReached(y, open')
  <2>1. Len(open) \in 1..Len(open') /\ open'[Len(open)].has BY <1>1
  <2> QED BY <1>5, <2>1 DEF HereReached, Silent
<1>8. \A k \in 1..Len(open) : IfReached(y, open', ids, k)
  <2> SUFFICES ASSUME NEW k \in 1..Len(open) PROVE IfReached(y, open', ids, k)
    OBVIOUS
  <2>1. IfReached(x, open, ids, k) BY DEF Reach, x
  <2>2. \A i \in 1..k-1 : open'[i].has = open[i].has BY <1>1
  <2>3. Label("ENDIF", ids[k]) # Follows /\ Label("ELSE", ids[k]) # Follows
    BY LabelFacts DEF Follows, NoLabel
  <2> QED BY <1>1, <1>5, <2>1, <2>2, <2>3, IfKept
<1>9. ValuesReturned' BY <1>2 DEF Reach, ValuesReturned
<1> QED BY <1>1, <1>2, <1>4, <1>6, <1>7, <1>8, <1>9 DEF Reach, y

(* A statement is opened.                                                  *)
Pushed(frame) ==
  /\ Len(open) \in Nat \ {0} /\ open # <<>> /\ Len(open') = Len(open) + 1
  /\ \A k \in 1..Len(open) : Like(open'[k], open[k]) /\ open'[k].has = open[k].has
  /\ open'[Len(open) + 1] = frame

LEMMA PushedLike ==
  ASSUME WalkInv, open # <<>>, NEW frame \in Frames, open' = Append(Filled, frame)
  PROVE  Pushed(frame)
<1>1. open \in Seq(Frames) BY DEF WalkInv, WalkTyped
<1>2. Filled \in Seq(Frames) /\ Len(Filled) = Len(open) /\ Len(open) \in Nat \ {0}
  BY <1>1, FilledFacts, OuterFacts
<1>3. \A i \in 1..Len(open) : Like(Filled[i], open[i]) /\ Filled[i].has = open[i].has
  BY <1>1, FilledLike
<1>4. /\ Len(open') = Len(open) + 1
      /\ \A i \in 1..Len(open) : open'[i] = Filled[i]
      /\ open'[Len(open) + 1] = frame
  BY <1>2
<1> QED BY <1>2, <1>3, <1>4 DEF Pushed

LEMMA BeginBlockReach == ASSUME IInv, Reach, BeginBlock PROVE Reach'
<1> DEFINE frame == Frame("block", FALSE, FALSE)
<1>1. frame \in Frames /\ frame.node = "block" /\ ~frame.has BY DEF Frame, Frames
<1>2. Pushed(frame)
  BY <1>1, PushedLike DEF BeginBlock, OpenBlock, Accepts, IInv, Typed
<1> HIDE DEF frame
<1>3. ids' = Append(ids, 0) /\ blocks' = blocks /\ blockCounter' = blockCounter /\ program' = program
  BY DEF BeginBlock
<1>4. \A k \in 1..Len(open) : ids'[k] = ids[k] BY <1>3 DEF IInv, Typed
<1>5. \A k \in 1..Len(open) : IfReached(Exits(blocks), open', ids', k)
  <2> SUFFICES ASSUME NEW k \in 1..Len(open) PROVE IfReached(Exits(blocks), open', ids', k)
    OBVIOUS
  <2>1. IfReached(Exits(blocks), open, ids, k) BY DEF Reach
  <2>2. \A i \in 1..k-1 : open'[i].has = open[i].has BY <1>2 DEF Pushed
  <2>3. Like(open'[k], open[k]) BY <1>2 DEF Pushed
  <2> QED BY <1>4, <2>1, <2>2, <2>3, IfKept
<1>6. IfReached(Exits(blocks), open', ids', Len(open) + 1)
  BY <1>1, <1>2 DEF IfReached, Pushed
<1>7. HereReached(Exits(blocks), open')
  <2>1. Silent(open', Len(open) + 1) <=> Silent(open, Len(open))
    BY <1>1, <1>2 DEF Silent, Pushed
  <2> QED BY <1>2, <2>1 DEF Reach, HereReached, Pushed
<1>8. \A k \in 1..Len(open') : IfReached(Exits(blocks), open', ids', k)
  BY <1>2, <1>5, <1>6 DEF Pushed
<1> QED BY <1>3, <1>7, <1>8 DEF Reach, ValuesReturned

(* A statement is closed, and hasReturn of it is result.                   *)
Popped(result) ==
  /\ Len(open) \in Nat /\ Len(open) > 1 /\ open # <<>> /\ Len(open') = Len(open) - 1
  /\ \A k \in 1..Len(open)-1 : Like(open'[k], open[k])
  /\ \A k \in 1..Len(open)-2 : open'[k].has = open[k].has
  /\ open'[Len(open) - 1].has <=> (open[Len(open) - 1].has \/ result)

LEMMA PoppedLike ==
  ASSUME WalkInv, Len(open) > 1, NEW has \in BOOLEAN, open' = Give(Outer, has)
  PROVE  Popped(has)
<1>1. open \in Seq(Frames) /\ open # <<>> /\ Len(open) \in Nat
  BY DEF WalkInv, WalkTyped
<1>2. /\ Outer \in Seq(Frames)
      /\ Len(Outer) = Len(open) - 1
      /\ \A i \in 1..Len(open)-1 : Outer[i] = open[i]
  BY <1>1, OuterFacts
<1>3. PICK n \in Nat : n = Len(open) - 1 /\ n > 0 BY <1>1
<1>4. /\ Len(open') = n
      /\ \A i \in 1..n : Like(open'[i], Outer[i])
      /\ \A i \in 1..n-1 : open'[i].has = Outer[i].has
      /\ open'[n].has <=> (Outer[n].has \/ has)
  BY <1>2, <1>3, GiveLike
<1>5. n \in 1..n /\ \A i \in 1..n-1 : i \in 1..n BY <1>3
<1>6. \A i \in 1..n : Outer[i] = open[i] BY <1>2, <1>3
<1>7. n - 1 = Len(open) - 2 BY <1>1, <1>3
<1> QED BY <1>1, <1>3, <1>4, <1>5, <1>6, <1>7 DEF Popped

(* What is known of the statements that stay open.                         *)
LEMMA PoppedReach ==
  ASSUME Reach, NEW result, Popped(result), NEW y,
         \A k \in 1..Len(open)-1 : ids'[k] = ids[k],
         \A k \in 1..Len(open)-1 : open[k].node \in {"if", "else"} =>
           /\ Label("ENDIF", ids[k]) \in y <=> Label("ENDIF", ids[k]) \in Exits(blocks)
           /\ Label("ELSE", ids[k]) \in y <=> Label("ELSE", ids[k]) \in Exits(blocks)
  PROVE  /\ \A k \in 1..Len(open') : IfReached(y, open', ids', k)
         /\ Silent(open', Len(open')) <=> (Silent(open, Len(open) - 1) /\ ~result)
<1>1. ASSUME NEW k \in 1..Len(open') PROVE IfReached(y, open', ids', k)
  <2>1. k \in 1..Len(open) /\ k \in 1..Len(open)-1 BY DEF Popped
  <2>2. IfReached(Exits(blocks), open, ids, k) BY <2>1 DEF Reach
  <2>3. \A i \in 1..k-1 : open'[i].has = open[i].has BY <2>1 DEF Popped
  <2>4. Like(open'[k], open[k]) /\ ids'[k] = ids[k] BY <2>1 DEF Popped
  <2> QED BY <2>1, <2>2, <2>3, <2>4, IfKept
<1>2. Silent(open', Len(open')) <=> (Silent(open, Len(open) - 1) /\ ~result)
  <2>1. PICK n \in Nat : n = Len(open) - 1 /\ n > 0 BY DEF Popped
  <2>2. /\ Len(open') = n
        /\ \A i \in 1..n-1 : open'[i].has = open[i].has
        /\ open'[n].has <=> (open[n].has \/ result)
    BY <2>1 DEF Popped
  <2>3. \A i \in 1..n : i = n \/ i \in 1..n-1 BY <2>1
  <2>4. n \in 1..n /\ \A i \in 1..n-1 : i \in 1..n BY <2>1
  <2>5. Silent(open', n) <=> (Silent(open, n) /\ ~result) BY <2>2, <2>3, <2>4 DEF Silent
  <2> QED BY <2>1, <2>2, <2>5
<1> QED BY <1>1, <1>2

(* The last statement of a stack may return.                               *)
LEMMA SilentTop ==
  ASSUME NEW stack, NEW n \in Nat, n > 0
  PROVE  Silent(stack, n) <=> (Silent(stack, n - 1) /\ ~stack[n].has)
<1>1. \A i \in 1..n : i = n \/ i \in 1..n-1 OBVIOUS
<1>2. n \in 1..n /\ \A i \in 1..n-1 : i \in 1..n OBVIOUS
<1> QED BY <1>1, <1>2 DEF Silent

LEMMA OuterIdsFacts ==
  ASSUME Typed, open # <<>>, ids' = OuterIds
  PROVE  \A k \in 1..Len(open)-1 : ids'[k] = ids[k]
<1>1. ids \in Seq(Nat) /\ Len(ids) = Len(open) /\ ids # <<>>
  BY DEF Typed, WalkInv, WalkTyped
<1> QED BY <1>1, FrontFacts DEF OuterIds

LEMMA EndBlockReach == ASSUME IInv, Reach, EndBlock PROVE Reach'
<1>1. Len(open) > 1 /\ open # <<>> /\ open' = Give(Outer, Top.has) /\ Top.has \in BOOLEAN
  <2>1. open # <<>> /\ open' = Give(Outer, Top.has) BY DEF EndBlock, CloseBlock
  <2>2. Top \in Frames BY <2>1, OuterFacts DEF IInv, Typed, WalkInv, WalkTyped
  <2> QED BY <2>1, <2>2, CloseBlockWalk DEF EndBlock, IInv, Typed, Frames
<1>2. Popped(Top.has) BY <1>1, PoppedLike DEF IInv, Typed
<1>3. ids' = OuterIds /\ blocks' = blocks /\ blockCounter' = blockCounter /\ program' = program
  BY DEF EndBlock
<1>4. \A k \in 1..Len(open)-1 : ids'[k] = ids[k]
  BY <1>1, <1>3, OuterIdsFacts DEF IInv
<1>5. /\ \A k \in 1..Len(open') : IfReached(Exits(blocks), open', ids', k)
      /\ Silent(open', Len(open')) <=> (Silent(open, Len(open) - 1) /\ ~Top.has)
  BY <1>2, <1>4, PoppedReach
<1>6. HereReached(Exits(blocks), open')
  <2>1. Silent(open, Len(open)) <=> (Silent(open, Len(open) - 1) /\ ~Top.has)
    BY <1>2, SilentTop DEF Popped, Top
  <2> QED BY <1>1, <1>5, <2>1 DEF Reach, HereReached
<1> QED BY <1>3, <1>5, <1>6 DEF Reach, ValuesReturned

(* A jump to a label ends the current block.                               *)
LEMMA JumpCode ==
  ASSUME NEW target \in Labels, target # NoLabel
  PROVE  /\ <<Inst("JMP", target)>> \in CodeSet
         /\ NamedCode(<<Inst("JMP", target)>>)
<1> DEFINE d == <<Inst("JMP", target)>>
<1>1. d \in CodeSet BY DEF Inst, CodeSet
<1>2. DOMAIN d = {1} /\ d[1].target = target BY DEF Inst
<1> HIDE DEF d
<1>3. NamedCode(d) BY <1>2 DEF NamedCode, Jumps
<1> QED BY <1>1, <1>3 DEF d

LEMMA EndIfReach == ASSUME IInv, Reach, EndIf PROVE Reach'
<1> DEFINE x == Exits(blocks)  y == Exits(blocks')  n == Len(open)  id == ids[n]
           l == Label("ENDIF", id)  d == <<Inst("JMP", l)>>  z == Exits(Emit(d))
<1>1. /\ Len(open) > 1 /\ open # <<>> /\ open' = Give(Outer, ifHasReturn)
      /\ open[n].node = "else" \/ (open[n].node = "if" /\ ~open[n].tight)
  <2>1. CloseIf BY DEF EndIf
  <2>2. open # <<>> /\ open' = Give(Outer, ifHasReturn) BY <2>1 DEF CloseIf, AtEndOfIf
  <2> QED BY <2>1, <2>2, CloseIfWalk DEF IInv, Typed
<1>2. Popped(ifHasReturn)
  <2>1. ifHasReturn \in BOOLEAN BY DEF ifHasReturn
  <2> QED BY <1>1, <2>1, PoppedLike DEF IInv, Typed
<1>3. n \in Nat /\ n > 1 /\ ids \in Seq(Nat) /\ Len(ids) = n /\ id \in Nat /\ TopId = id
  BY <1>2 DEF Popped, IInv, Typed, TopId
<1>4. ids' = OuterIds /\ blockCounter' = blockCounter + 1 /\ program' = program
      /\ Start(Emit(d), l)
  BY <1>3 DEF EndIf
<1>5. l \in Labels /\ l # NoLabel /\ l.id = id /\ l.kind = "ENDIF"
  <2>1. l \in Labels BY <1>3 DEF Label, Labels
  <2> QED BY <2>1, LabelFacts DEF NoLabel
<1>6. d \in CodeSet /\ NamedCode(d) /\ Leaves(d) = {l}
  BY <1>5, JumpCode, LeavesFacts
<1> HIDE DEF d, l
<1>7. /\ z = IF Follows \in x THEN (x \ {Follows}) \cup {l} ELSE x
      /\ Named(Emit(d)) /\ Emit(d) \in Seq(BlockSet)
  BY <1>1, <1>6, EmitReach DEF IInv, Reach
<1>8. /\ y = IF Follows \in z \/ l \in z THEN z \cup {Follows} ELSE z
      /\ Named(blocks')
  BY <1>4, <1>5, <1>7, StartReach
<1> HIDE DEF x, y, z
<1>9. /\ Follows \in y <=> Follows \in x \/ l \in x
      /\ \A t : t # l /\ t # Follows => (t \in y <=> t \in x)
  BY <1>5, <1>7, <1>8 DEF Follows
<1>10. \A k \in 1..n-1 : open[k].node \in {"if", "else"} =>
           /\ Label("ENDIF", ids[k]) \in y <=> Label("ENDIF", ids[k]) \in x
           /\ Label("ELSE", ids[k]) \in y <=> Label("ELSE", ids[k]) \in x
  <2> SUFFICES ASSUME NEW k \in 1..n-1, open[k].node \in {"if", "else"}
               PROVE /\ Label("ENDIF", ids[k]) \in y <=> Label("ENDIF", ids[k]) \in x
                     /\ Label("ELSE", ids[k]) \in y <=> Label("ELSE", ids[k]) \in x
    OBVIOUS
  <2>1. ids[k] # id
    <3>1. k \in DOMAIN open /\ n \in DOMAIN open /\ k # n
      BY <1>3 DEF IInv, Typed, WalkInv, WalkTyped
    <3> QED BY <1>1, <3>1 DEF IInv, IdsFresh, IsIf
  <2>2. Label("ENDIF", ids[k]) # l /\ Label("ELSE", ids[k]) # l
    BY <2>1, LabelFacts DEF l
  <2>3. Label("ENDIF", ids[k]) # Follows /\ Label("ELSE", ids[k]) # Follows
    BY LabelFacts DEF Follows, NoLabel
  <2> QED BY <1>9, <2>2, <2>3
<1>11. /\ \A k \in 1..Len(open') : IfReached(y, open', ids', k)
       /\ Silent(open', Len(open')) <=> (Silent(open, n - 1) /\ ~ifHasReturn)
  <2>1. \A k \in 1..n-1 : ids'[k] = ids[k]
    BY <1>1, <1>4, OuterIdsFacts DEF IInv
  <2> QED BY <1>2, <1>10, <2>1, PoppedReach DEF x
<1>12. HereReached(y, open')
  <2>1. Silent(open, n) <=> (Silent(open, n - 1) /\ ~open[n].has)
    BY <1>3, SilentTop
  <2>2. Follows \in x <=> Silent(open, n)
    BY <1>1 DEF Reach, HereReached, x
  <2>3. IfReached(x, open, ids, n)
    BY <1>3 DEF Reach, x
  <2>4. CASE open[n].node = "else"
    <3>1. l \in x <=> (~open[n].ifHas /\ Silent(open, n - 1))
      BY <2>3, <2>4 DEF IfReached, l
    <3>2. ifHasReturn <=> (open[n].ifHas /\ open[n].has)
      BY <2>4 DEF ifHasReturn, Top
    <3> QED BY <1>9, <1>11, <2>1, <2>2, <3>1, <3>2 DEF HereReached
  <2>5. CASE open[n].node = "if" /\ ~open[n].tight
    <3>1. l \in x <=> Silent(open, n - 1)
      BY <2>3, <2>5 DEF IfReached, l
    <3>2. ~ifHasReturn
      BY <2>5 DEF ifHasReturn, Top
    <3> QED BY <1>9, <1>11, <2>1, <2>2, <3>1, <3>2 DEF HereReached
  <2> QED BY <1>1, <2>4, <2>5
<1>13. KnownLabels(y, blockCounter')
  <2> SUFFICES ASSUME NEW t \in y, t # Follows
               PROVE  t.kind # "NONE" /\ t.id \in Nat /\ t.id < blockCounter'
    BY DEF KnownLabels
  <2>1. blockCounter \in Nat /\ id < blockCounter
    <3>1. n \in DOMAIN open BY <1>3 DEF IInv, Typed, WalkInv, WalkTyped
    <3> QED BY <1>1, <3>1 DEF IInv, Typed, IdsFresh, IsIf
  <2>2. CASE t = l BY <1>3, <1>4, <1>5, <2>1, <2>2
  <2>3. CASE t # l
    <3>1. t \in x BY <1>9, <2>3
    <3> QED BY <1>4, <2>1, <3>1 DEF Reach, KnownLabels, x
  <2> QED BY <2>2, <2>3
<1>14. ValuesReturned' BY <1>4 DEF Reach, ValuesReturned
<1> QED BY <1>8, <1>11, <1>12, <1>13, <1>14 DEF Reach, y

LEMMA BeginIfReach ==
  ASSUME IInv, Reach, NEW hasElse \in BOOLEAN, BeginIf(hasElse)
  PROVE  Reach'
<1> DEFINE x == Exits(blocks)  y == Exits(blocks')  n == Len(open)  id == blockCounter
           l == Label("IF", id)
           o == Label(IF hasElse THEN "ELSE" ELSE "ENDIF", id)
           d == <<Inst("JZ", l), Inst("JMP", o)>>
           z == Exits(Emit(d))
           frame == Frame("if", hasElse, FALSE)
<1>1. /\ frame \in Frames /\ frame.node = "if" /\ (frame.tight <=> hasElse) /\ ~frame.has
      /\ frame.ifHas = FALSE
  BY DEF Frame, Frames
<1>2. /\ Start(Emit(d), l) /\ ids' = Append(ids, id)
      /\ blockCounter' = id + 1 /\ program' = program
  BY DEF BeginIf
<1>3. open # <<>> /\ open' = Append(Filled, frame)
  BY DEF BeginIf, OpenIf, Accepts
<1> HIDE DEF frame
<1>4. Pushed(frame) BY <1>1, <1>3, PushedLike DEF IInv, Typed
<1>5. n \in Nat /\ n > 0 /\ ids \in Seq(Nat) /\ Len(ids) = n /\ id \in Nat
  BY <1>4 DEF Pushed, IInv, Typed
<1>6. (\A k \in 1..n : ids'[k] = ids[k]) /\ ids'[n + 1] = id
  BY <1>2, <1>5
<1>7. /\ l \in Labels /\ o \in Labels /\ l # NoLabel /\ o # NoLabel /\ o # l
      /\ l.id = id /\ l.kind = "IF" /\ o.id = id /\ o.kind # "NONE"
  <2>1. l \in Labels /\ o \in Labels BY <1>5 DEF Label, Labels
  <2> QED BY <2>1, LabelFacts DEF NoLabel
<1>8. d \in CodeSet /\ NamedCode(d) /\ Leaves(d) = {l, o}
  <2>1. d \in CodeSet BY <1>7 DEF Inst, CodeSet
  <2>2. DOMAIN d = {1, 2} /\ d[1].target = l /\ d[2].target = o BY DEF Inst
  <2>3. Leaves(d) = {l, o} BY LeavesFacts
  <2> HIDE DEF d
  <2>4. NamedCode(d) BY <1>7, <2>2 DEF NamedCode, Jumps
  <2> QED BY <2>1, <2>3, <2>4
<1> HIDE DEF d, l, o
<1>9. /\ z = IF Follows \in x THEN (x \ {Follows}) \cup {l, o} ELSE x
      /\ Named(Emit(d)) /\ Emit(d) \in Seq(BlockSet)
  BY <1>3, <1>8, EmitReach DEF IInv, Reach
<1>10. /\ y = IF Follows \in z \/ l \in z THEN z \cup {Follows} ELSE z
      /\ Named(blocks')
  BY <1>2, <1>7, <1>9, StartReach
<1> HIDE DEF x, y, z
<1>11. \A t \in x : t = Follows \/ (t.kind # "NONE" /\ t.id \in Nat /\ t.id < id)
  BY DEF Reach, KnownLabels, x
<1>12. \A k : Label(k, id) # Follows => Label(k, id) \notin x
  <2> SUFFICES ASSUME NEW k, Label(k, id) # Follows, Label(k, id) \in x PROVE FALSE
    OBVIOUS
  <2>1. Label(k, id).id = id BY LabelFacts
  <2> QED BY <1>5, <1>11, <2>1
<1>13. l \notin x /\ o \notin x
  BY <1>7, <1>12 DEF l, o, Follows
<1>14. y = IF Follows \in x THEN x \cup {l, o} ELSE x
  BY <1>7, <1>9, <1>10, <1>13 DEF Follows
<1>15. Silent(open', n + 1) <=> Silent(open, n)
  BY <1>1, <1>4, <1>5 DEF Silent, Pushed
<1>16. Follows \in x <=> Silent(open, n)
  BY <1>3 DEF Reach, HereReached, x
<1>17. HereReached(y, open')
  <2>1. Len(open') = n + 1 BY <1>4 DEF Pushed
  <2> QED BY <1>7, <1>14, <1>15, <1>16, <2>1 DEF HereReached, Follows
<1>18. ASSUME NEW k \in 1..n PROVE IfReached(y, open', ids', k)
  <2>1. IfReached(x, open, ids, k) BY DEF Reach, x
  <2>2. /\ \A i \in 1..k-1 : open'[i].has = open[i].has
        /\ Like(open'[k], open[k])
    BY <1>4 DEF Pushed
  <2>3. ASSUME open[k].node \in {"if", "else"}
        PROVE  /\ Label("ENDIF", ids[k]) \in y <=> Label("ENDIF", ids[k]) \in x
               /\ Label("ELSE", ids[k]) \in y <=> Label("ELSE", ids[k]) \in x
    <3>1. ids[k] # id
      <4>1. k \in DOMAIN open BY <1>5 DEF IInv, Typed, WalkInv, WalkTyped
      <4>2. ids[k] < id BY <2>3, <4>1 DEF IInv, IdsFresh, IsIf
      <4> QED BY <1>5, <4>2
    <3>2. \A kind : Label(kind, ids[k]) # l /\ Label(kind, ids[k]) # o
      BY <3>1, LabelFacts DEF l, o
    <3> QED BY <1>14, <3>2
  <2> QED BY <1>6, <2>1, <2>2, <2>3, IfKept
<1>19. IfReached(y, open', ids', n + 1)
  <2>1. open'[n + 1] = frame /\ n + 1 - 1 = n BY <1>4, <1>5 DEF Pushed
  <2>2. Silent(open', n) <=> Silent(open, n)
    BY <1>4 DEF Silent, Pushed
  <2>3. Label("ELSE", id) # l /\ Label("ENDIF", id) # l /\ Label("ELSE", id) # Follows
        /\ Label("ENDIF", id) # Follows /\ Label("ELSE", id) # Label("ENDIF", id)
    BY LabelFacts DEF l, Follows, NoLabel
  <2>4. Label("ELSE", id) \notin x /\ Label("ENDIF", id) \notin x
    BY <1>12, <2>3
  <2>5. CASE hasElse
    <3>1. o = Label("ELSE", id) BY <2>5 DEF o
    <3> QED BY <1>1, <1>6, <1>14, <1>16, <2>1, <2>2, <2>3, <2>4, <2>5, <3>1 DEF IfReached
  <2>6. CASE ~hasElse
    <3>1. o = Label("ENDIF", id) BY <2>6 DEF o
    <3> QED BY <1>1, <1>6, <1>14, <1>16, <2>1, <2>2, <2>3, <2>4, <2>6, <3>1 DEF IfReached
  <2> QED BY <2>5, <2>6
<1>20. \A k \in 1..Len(open') : IfReached(y, open', ids', k)
  <2>1. Len(open') = n + 1 BY <1>4 DEF Pushed
  <2> QED BY <1>5, <1>18, <1>19, <2>1
<1>21. KnownLabels(y, blockCounter')
  BY <1>2, <1>5, <1>7, <1>11, <1>14 DEF KnownLabels
<1>22. ValuesReturned' BY <1>2 DEF Reach, ValuesReturned
<1> QED BY <1>10, <1>17, <1>20, <1>21, <1>22 DEF Reach, y

LEMMA BeginElseReach == ASSUME IInv, Reach, BeginElse PROVE Reach'
<1> DEFINE x == Exits(blocks)  y == Exits(blocks')  n == Len(open)  id == ids[n]
           l == Label("ENDIF", id)  e == Label("ELSE", id)
           d == <<Inst("JMP", l)>>  z == Exits(Emit(d))
           frame == Frame("else", Below.tight, Top.has)
<1>1. /\ Len(open) > 1 /\ open # <<>> /\ open[n].node = "if" /\ open[n].tight
      /\ open' = Append(Outer, frame)
  <2>1. OpenElse BY DEF BeginElse
  <2> QED BY <2>1, OpenElseWalk DEF OpenElse, IInv, Typed
<1>2. n \in Nat /\ n > 1 /\ open \in Seq(Frames) /\ ids \in Seq(Nat) /\ Len(ids) = n /\ id \in Nat
      /\ TopId = id
  BY <1>1 DEF IInv, Typed, WalkInv, WalkTyped, TopId
<1>3. frame \in Frames /\ frame.node = "else" /\ ~frame.has /\ frame.ifHas = open[n].has
  <2>1. Top \in Frames BY <1>1, <1>2, OuterFacts
  <2>2. Below \in Frames
    <3>1. n - 1 \in 1..n BY <1>2
    <3> QED BY <1>2, <3>1 DEF Below
  <2> QED BY <2>1, <2>2 DEF Frame, Frames, Top
<1> HIDE DEF frame
<1>4. /\ Len(open') = n
      /\ \A k \in 1..n-1 : open'[k] = open[k]
      /\ open'[n] = frame
  <2>1. /\ Outer \in Seq(Frames)
        /\ Len(Outer) = n - 1
        /\ \A i \in 1..n-1 : Outer[i] = open[i]
    BY <1>1, <1>2, OuterFacts
  <2> QED BY <1>1, <1>2, <1>3, <2>1
<1>5. ids' = ids /\ blockCounter' = blockCounter /\ program' = program
      /\ Start(Emit(d), e)
  BY <1>2 DEF BeginElse
<1>6. /\ l \in Labels /\ l # NoLabel /\ l.id = id /\ l.kind = "ENDIF"
      /\ e \in Labels /\ e # NoLabel /\ e # l
  <2>1. l \in Labels /\ e \in Labels BY <1>2 DEF Label, Labels
  <2> QED BY <2>1, LabelFacts DEF NoLabel
<1>7. d \in CodeSet /\ NamedCode(d) /\ Leaves(d) = {l}
  BY <1>6, JumpCode, LeavesFacts
<1> HIDE DEF d, l, e
<1>8. /\ z = IF Follows \in x THEN (x \ {Follows}) \cup {l} ELSE x
      /\ Named(Emit(d)) /\ Emit(d) \in Seq(BlockSet)
  BY <1>1, <1>7, EmitReach DEF IInv, Reach
<1>9. /\ y = IF Follows \in z \/ e \in z THEN z \cup {Follows} ELSE z
      /\ Named(blocks')
  BY <1>5, <1>6, <1>8, StartReach
<1> HIDE DEF x, y, z
<1>10. IfReached(x, open, ids, n) BY <1>2 DEF Reach, x
<1>11. /\ e \in x <=> Silent(open, n - 1)
       /\ l \notin x
  BY <1>1, <1>10 DEF IfReached, l, e
<1>12. Follows \in x <=> Silent(open, n)
  BY <1>1 DEF Reach, HereReached, x
<1>13. /\ Follows \in y <=> e \in x
       /\ l \in y <=> Follows \in x
       /\ \A t : t # l /\ t # Follows => (t \in y <=> t \in x)
  BY <1>6, <1>8, <1>9, <1>11 DEF Follows
<1>14. /\ Silent(open, n) <=> (Silent(open, n - 1) /\ ~open[n].has)
       /\ Silent(open', n) <=> (Silent(open', n - 1) /\ ~open'[n].has)
       /\ Silent(open', n - 1) <=> Silent(open, n - 1)
  <2>1. Silent(open', n - 1) <=> Silent(open, n - 1) BY <1>4 DEF Silent
  <2> QED BY <1>2, <2>1, SilentTop
<1>15. HereReached(y, open')
  BY <1>3, <1>4, <1>11, <1>13, <1>14 DEF HereReached
<1>16. ASSUME NEW k \in 1..n-1 PROVE IfReached(y, open', ids', k)
  <2>1. k \in 1..n BY <1>2
  <2>2. IfReached(x, open, ids, k) BY <2>1 DEF Reach, x
  <2>3. /\ \A i \in 1..k-1 : open'[i].has = open[i].has
        /\ Like(open'[k], open[k])
    BY <1>4 DEF Like
  <2>4. ASSUME open[k].node \in {"if", "else"}
        PROVE  /\ Label("ENDIF", ids[k]) \in y <=> Label("ENDIF", ids[k]) \in x
               /\ Label("ELSE", ids[k]) \in y <=> Label("ELSE", ids[k]) \in x
    <3>1. ids[k] # id
      <4>1. k \in DOMAIN open /\ n \in DOMAIN open /\ k # n BY <1>2
      <4> QED BY <1>1, <2>4, <4>1 DEF IInv, IdsFresh, IsIf
    <3>2. Label("ENDIF", ids[k]) # l /\ Label("ELSE", ids[k]) # l
      BY <3>1, LabelFacts DEF l
    <3>3. Label("ENDIF", ids[k]) # Follows /\ Label("ELSE", ids[k]) # Follows
      BY LabelFacts DEF Follows, NoLabel
    <3> QED BY <1>13, <3>2, <3>3
  <2> QED BY <1>5, <2>1, <2>2, <2>3, <2>4, IfKept
<1>17. IfReached(y, open', ids', n)
  <2>1. Label("ENDIF", ids'[n]) \in y <=> (~frame.ifHas /\ Silent(open', n - 1))
    BY <1>3, <1>5, <1>12, <1>13, <1>14 DEF l
  <2>2. e \in y <=> Silent(open', n - 1)
    BY <1>6, <1>11, <1>13, <1>14 DEF Follows
  <2>3. e = Label("ELSE", ids'[n])
    BY <1>5 DEF e
  <2> QED BY <1>3, <1>4, <2>1, <2>2, <2>3 DEF IfReached
<1>18. \A k \in 1..Len(open') : IfReached(y, open', ids', k)
  BY <1>2, <1>4, <1>16, <1>17
<1>19. KnownLabels(y, blockCounter')
  <2> SUFFICES ASSUME NEW t \in y, t # Follows
               PROVE  t.kind # "NONE" /\ t.id \in Nat /\ t.id < blockCounter'
    BY DEF KnownLabels
  <2>1. blockCounter \in Nat /\ id < blockCounter
    <3>1. n \in DOMAIN open BY <1>2
    <3> QED BY <1>1, <3>1 DEF IInv, Typed, IdsFresh, IsIf
  <2>2. CASE t = l BY <1>2, <1>5, <1>6, <2>1, <2>2
  <2>3. CASE t # l
    <3>1. t \in x BY <1>13, <2>3
    <3> QED BY <1>5, <2>1, <3>1 DEF Reach, KnownLabels, x
  <2> QED BY <2>2, <2>3
<1>20. ValuesReturned' BY <1>5 DEF Reach, ValuesReturned
<1> QED BY <1>9, <1>15, <1>18, <1>19, <1>20 DEF Reach, y

LEMMA EndFunctionReach ==
  ASSUME IInv, Reach, NEW isVoid \in BOOLEAN, EndFunction(isVoid)
  PROVE  Reach'
<1> DEFINE f == [isVoid |-> isVoid, blocks |-> blocks]
<1>1. /\ Len(open) = 1 /\ open # <<>> /\ open' = <<>>
      /\ Top.has \/ isVoid
      /\ program' = Append(program, f) /\ blocks' = <<>> /\ ids' = <<>>
      /\ blockCounter' = blockCounter
  BY CloseFunctionWalk DEF EndFunction, CloseFunction, IInv, Typed
<1>2. ~isVoid => ~FallsOff(blocks)
  <2>1. Follows \in Exits(blocks) <=> Silent(open, 1)
    BY <1>1 DEF Reach, HereReached
  <2>2. Silent(open, 1) => ~Top.has BY <1>1 DEF Silent, Top
  <2> QED BY <1>1, <2>1, <2>2 DEF FallsOff
<1>3. program \in Seq([isVoid : BOOLEAN, blocks : Seq(BlockSet)])
      /\ f \in [isVoid : BOOLEAN, blocks : Seq(BlockSet)]
  BY DEF IInv, Typed
<1>4. ValuesReturned'
  <2>1. /\ DOMAIN program' = 1..Len(program)+1 /\ DOMAIN program = 1..Len(program)
        /\ Len(program) \in Nat
        /\ \A p \in 1..Len(program) : program'[p] = program[p]
        /\ program'[Len(program)+1] = f
    BY <1>1, <1>3
  <2>2. f.isVoid = isVoid /\ f.blocks = blocks OBVIOUS
  <2> HIDE DEF f
  <2>3. \A p \in 1..Len(program) : ~program[p].isVoid => ~FallsOff(program[p].blocks)
    BY <2>1 DEF Reach, ValuesReturned
  <2>4. ASSUME NEW p \in 1..Len(program)+1, ~program'[p].isVoid
        PROVE  ~FallsOff(program'[p].blocks)
    <3>1. CASE p \in 1..Len(program) BY <2>1, <2>3, <2>4, <3>1
    <3>2. CASE p = Len(program) + 1 BY <1>2, <2>1, <2>2, <2>4, <3>2
    <3> QED BY <2>1, <3>1, <3>2
  <2> QED BY <2>1, <2>4 DEF ValuesReturned
<1>5. Named(blocks') /\ KnownLabels(Exits(blocks'), blockCounter')
  BY <1>1, NoBlockExits DEF Named, KnownLabels
<1> QED BY <1>1, <1>4, <1>5 DEF Reach

LEMMA ReachInv == IInv /\ Reach /\ [Next]_vars => Reach'
<1> SUFFICES ASSUME IInv, Reach, [Next]_vars PROVE Reach'
  OBVIOUS
<1>1. CASE TopLevel BY <1>1, TopLevelReach
<1>2. CASE BeginFunction BY <1>2, BeginFunctionReach
<1>3. CASE Statement BY <1>3, StatementReach
<1>4. CASE Return BY <1>4, ReturnReach
<1>5. CASE BeginBlock BY <1>5, BeginBlockReach
<1>6. CASE EndBlock BY <1>6, EndBlockReach
<1>7. CASE \E hasElse \in BOOLEAN : BeginIf(hasElse) BY <1>7, BeginIfReach
<1>8. CASE BeginElse BY <1>8, BeginElseReach
<1>9. CASE EndIf BY <1>9, EndIfReach
<1>10. CASE \E isVoid \in BOOLEAN : EndFunction(isVoid) BY <1>10, EndFunctionReach
<1>11. CASE Done BY <1>11, StutterReach DEF Done
<1>12. CASE UNCHANGED vars BY <1>12, StutterReach
<1> QED BY <1>1, <1>2, <1>3, <1>4, <1>5, <1>6, <1>7, <1>8, <1>9, <1>10, <1>11, <1>12 DEF Next

(* Which of the labels that are still to come control waits at, and        *)
(* whether it can come to the place code is appended to: hasReturn of the  *)
(* open statements says so, however deep they are nested.                  *)
THEOREM ReachKnown == Spec => []Reach
<1>1. Init => Reach
  <2> SUFFICES ASSUME Init PROVE Reach OBVIOUS
  <2>1. open = <<>> /\ blocks = <<>> /\ program = <<>> BY DEF Init, WalkInit
  <2> QED BY <2>1, NoBlockExits DEF Reach, Named, KnownLabels, ValuesReturned
<1> QED BY <1>1, ReachInv, InductiveInvariant, PTL DEF Spec

(* hasReturn and the graph agree on every place of every program           *)
(* (Semantic::hasReturn, TranslateStmt).                                   *)
THEOREM HasReturnAgrees == Spec => []ReachableIffNoReturn
<1>1. IInv /\ Reach => ReachableIffNoReturn
  <2> SUFFICES ASSUME IInv, Reach, open # <<>>
               PROVE  FallsOff(blocks) <=> \A i \in DOMAIN open : ~open[i].has
    BY DEF ReachableIffNoReturn
  <2>1. DOMAIN open = 1..Len(open)
    BY DEF IInv, Typed, WalkInv, WalkTyped
  <2>2. Follows \in Exits(blocks) <=> Silent(open, Len(open))
    BY DEF Reach, HereReached
  <2> QED BY <2>1, <2>2 DEF Silent, FallsOff
<1> QED BY <1>1, ReachKnown, InductiveInvariant, PTL

(* Control never runs off the end of a function that is to return a value, *)
(* in any program the analyser accepts (the check after hasReturn).        *)
THEOREM AcceptedReturn == Spec => []ValuesReturned
<1>1. Reach => ValuesReturned BY DEF Reach
<1> QED BY <1>1, ReachKnown, PTL

-----------------------------------------------------------------------------
(***************************************************************************)
(* The if statements of a stack.                                           *)
(***************************************************************************)
IsIfIn(stack, k) == stack[k].node \in {"if", "else"}

(* The places of the if statements up to each depth.                       *)
Places(stack, e) ==
  /\ DOMAIN e = 0..Len(stack)
  /\ e[0] = <<>>
  /\ \A k \in 1..Len(stack) : e[k] = IF IsIfIn(stack, k) THEN Append(e[k-1], k) ELSE e[k-1]

IfsOf(stack) ==
  CHOOSE e : e = [k \in 0..Len(stack) |->
    IF k = 0 THEN <<>> ELSE IF IsIfIn(stack, k) THEN Append(e[k-1], k) ELSE e[k-1]]

LEMMA IfsAre == \A stack : Ifs(stack) = IfsOf(stack)[Len(stack)]
BY DEF Ifs, IfsOf, IsIfIn

(* There is such a list for any stack.                                     *)
LEMMA PlacesExist ==
  ASSUME NEW n \in Nat, NEW stack, Len(stack) = n
  PROVE  \E e : Places(stack, e)
<1> DEFINE P(m) == \E e : /\ DOMAIN e = 0..m
                          /\ e[0] = <<>>
                          /\ \A k \in 1..m : e[k] = IF IsIfIn(stack, k) THEN Append(e[k-1], k) ELSE e[k-1]
           S == {m \in 0..n : P(m)}
<1>1. 0 \in S
  <2> DEFINE f == [j \in 0..0 |-> <<>>]
  <2>1. DOMAIN f = 0..0 /\ f[0] = <<>> OBVIOUS
  <2>2. \A k \in 1..0 : FALSE OBVIOUS
  <2> HIDE DEF f
  <2>3. P(0) BY <2>1, <2>2
  <2> QED BY <2>3
<1>2. ASSUME NEW m \in 1..n, m - 1 \in S PROVE m \in S
  <2>1. PICK e : /\ DOMAIN e = 0..m-1
                 /\ e[0] = <<>>
                 /\ \A k \in 1..m-1 : e[k] = IF IsIfIn(stack, k) THEN Append(e[k-1], k) ELSE e[k-1]
    BY <1>2
  <2> DEFINE last == IF IsIfIn(stack, m) THEN Append(e[m-1], m) ELSE e[m-1]
             f == [j \in 0..m |-> IF j = m THEN last ELSE e[j]]
  <2> HIDE DEF last
  <2>2. DOMAIN f = 0..m /\ f[0] = <<>> BY <2>1
  <2>3. f[m] = last /\ f[m-1] = e[m-1] OBVIOUS
  <2>4. \A k \in 1..m-1 : f[k] = e[k] /\ f[k-1] = e[k-1] OBVIOUS
  <2> HIDE DEF f
  <2>5. ASSUME NEW k \in 1..m
        PROVE  f[k] = IF IsIfIn(stack, k) THEN Append(f[k-1], k) ELSE f[k-1]
    <3>1. CASE k = m BY <2>3, <3>1 DEF last
    <3>2. CASE k # m
      <4>1. k \in 1..m-1 BY <3>2
      <4> QED BY <2>1, <2>4, <4>1
    <3> QED BY <3>1, <3>2
  <2>6. P(m) BY <2>2, <2>5
  <2> QED BY <2>6
<1> HIDE DEF P
<1>3. n \in 0..n OBVIOUS
<1>4. n \in S
  <2> HIDE DEF S
  <2> QED BY <1>1, <1>2, <1>3, UpTo
<1>5. P(n) BY <1>4
<1> QED BY <1>5 DEF P, Places

(* The definition of Ifs means what it says.                               *)
LEMMA IfsPlaces ==
  ASSUME NEW n \in Nat, NEW stack, Len(stack) = n
  PROVE  Places(stack, IfsOf(stack))
<1> DEFINE Eq(e) == e = [k \in 0..Len(stack) |->
    IF k = 0 THEN <<>> ELSE IF IsIfIn(stack, k) THEN Append(e[k-1], k) ELSE e[k-1]]
<1>1. PICK e : Places(stack, e) BY PlacesExist
<1>2. \E d : Eq(d)
  <2> DEFINE d == [k \in 0..n |-> e[k]]
  <2>3. d[0] = <<>> BY <1>1 DEF Places
  <2>4. ASSUME NEW k \in 1..n
        PROVE  d[k] = IF IsIfIn(stack, k) THEN Append(d[k-1], k) ELSE d[k-1]
    <3>1. d[k] = e[k] /\ d[k-1] = e[k-1] OBVIOUS
    <3> HIDE DEF d
    <3> QED BY <1>1, <3>1 DEF Places
  <2> HIDE DEF d
  <2>1. \A k \in 0..n : d[k] = IF k = 0 THEN <<>>
                               ELSE IF IsIfIn(stack, k) THEN Append(d[k-1], k) ELSE d[k-1]
    <3>1. \A k \in 0..n : k # 0 => k \in 1..n OBVIOUS
    <3> QED BY <2>3, <2>4, <3>1
  <2>2. DOMAIN d = 0..n /\ d = [k \in 0..n |-> d[k]] BY DEF d
  <2> QED BY <2>1, <2>2
<1>3. Eq(IfsOf(stack)) BY <1>2 DEF IfsOf
<1> DEFINE x == IfsOf(stack)
<1> HIDE DEF x
<1>4. x = [k \in 0..n |-> IF k = 0 THEN <<>>
                          ELSE IF IsIfIn(stack, k) THEN Append(x[k-1], k) ELSE x[k-1]]
  BY <1>3 DEF x
<1>5. \A k \in 0..n : x[k] = IF k = 0 THEN <<>>
                             ELSE IF IsIfIn(stack, k) THEN Append(x[k-1], k) ELSE x[k-1]
  BY <1>4
<1>6. DOMAIN x = 0..n BY ONLY <1>4
<1>8. 0 \in 0..n /\ \A k \in 1..n : k \in 0..n /\ k # 0 OBVIOUS
<1>9. x[0] = <<>> BY <1>5, <1>8
<1>10. \A k \in 1..n : x[k] = IF IsIfIn(stack, k) THEN Append(x[k-1], k) ELSE x[k-1]
  BY <1>5, <1>8
<1>7. Places(stack, x) BY <1>6, <1>9, <1>10 DEF Places
<1> QED BY <1>7 DEF x

(* They are the same for stacks with the same if statements.               *)
LEMMA SamePlaces ==
  ASSUME NEW s, NEW t, NEW d, NEW e, Places(s, d), Places(t, e), NEW n \in Nat,
         Len(s) \in Nat, Len(t) \in Nat, n <= Len(s), n <= Len(t),
         \A k \in 1..n : IsIfIn(s, k) <=> IsIfIn(t, k)
  PROVE  d[n] = e[n]
<1> DEFINE S == {m \in 0..n : d[m] = e[m]}
<1>1. 0 \in S
  <2>1. d[0] = <<>> /\ e[0] = <<>> BY DEF Places
  <2>2. 0 \in 0..n OBVIOUS
  <2> QED BY <2>1, <2>2
<1>2. ASSUME NEW k \in 1..n, k - 1 \in S PROVE k \in S
  <2>1. k \in 1..Len(s) /\ k \in 1..Len(t) OBVIOUS
  <2>2. /\ d[k] = IF IsIfIn(s, k) THEN Append(d[k-1], k) ELSE d[k-1]
        /\ e[k] = IF IsIfIn(t, k) THEN Append(e[k-1], k) ELSE e[k-1]
    BY <2>1 DEF Places
  <2> QED BY <1>2, <2>2
<1>3. n \in S
  <2>1. n \in 0..n OBVIOUS
  <2> HIDE DEF S
  <2> QED BY <1>1, <1>2, <2>1, UpTo
<1> QED BY <1>3

(* They are places in the stack.                                           *)
LEMMA PlacesTyped ==
  ASSUME NEW s, NEW d, Places(s, d), Len(s) \in Nat
  PROVE  \A n \in 0..Len(s) : d[n] \in Seq({k \in 1..n : IsIfIn(s, k)})
<1> DEFINE T(m) == {k \in 1..m : IsIfIn(s, k)}
           S == {m \in 0..Len(s) : d[m] \in Seq(T(m))}
<1>1. 0 \in S
  <2>1. d[0] = <<>> BY DEF Places
  <2>2. <<>> \in Seq(T(0)) /\ 0 \in 0..Len(s) OBVIOUS
  <2> QED BY <2>1, <2>2
<1>2. ASSUME NEW k \in 1..Len(s), k - 1 \in S PROVE k \in S
  <2>1. d[k] = IF IsIfIn(s, k) THEN Append(d[k-1], k) ELSE d[k-1]
    BY DEF Places
  <2>2. d[k-1] \in Seq(T(k))
    <3>1. d[k-1] \in Seq(T(k-1)) BY <1>2
    <3>2. T(k-1) \subseteq T(k) OBVIOUS
    <3> HIDE DEF T
    <3> QED BY <3>1, <3>2
  <2>3. IsIfIn(s, k) => k \in T(k) OBVIOUS
  <2> HIDE DEF T
  <2>4. IsIfIn(s, k) => Append(d[k-1], k) \in Seq(T(k)) BY <2>2, <2>3
  <2>5. d[k] \in Seq(T(k)) BY <2>1, <2>2, <2>4
  <2> QED BY <2>5
<1>3. \A n \in 0..Len(s) : n \in S
  <2> HIDE DEF S
  <2> QED BY <1>1, <1>2, UpTo
<1> QED BY <1>3

(* Two stacks of which one may have a statement more.                      *)
LEMMA IfsFacts ==
  ASSUME NEW s, NEW t, NEW n \in Nat, Len(s) = n,
         \A k \in 1..n : IsIfIn(s, k) <=> IsIfIn(t, k)
  PROVE  /\ Ifs(s) \in Seq({k \in 1..n : IsIfIn(s, k)})
         /\ Len(t) = n => Ifs(t) = Ifs(s)
         /\ Len(t) = n + 1 => Ifs(t) = IF IsIfIn(t, n + 1) THEN Append(Ifs(s), n + 1) ELSE Ifs(s)
<1> DEFINE d == IfsOf(s)  e == IfsOf(t)
<1>1. Places(s, d) BY IfsPlaces
<1>2. Ifs(s) = d[n] /\ Ifs(t) = e[Len(t)] BY IfsAre
<1> HIDE DEF d
<1>3. Ifs(s) \in Seq({k \in 1..n : IsIfIn(s, k)})
  <2>1. n \in 0..Len(s) OBVIOUS
  <2> QED BY <1>1, <1>2, <2>1, PlacesTyped
<1>4. ASSUME Len(t) = n PROVE Ifs(t) = Ifs(s)
  <2>1. Places(t, e) BY <1>4, IfsPlaces
  <2> HIDE DEF e
  <2>2. d[n] = e[n] BY <1>1, <1>4, <2>1, SamePlaces
  <2> QED BY <1>2, <1>4, <2>2
<1>5. ASSUME Len(t) = n + 1
      PROVE  Ifs(t) = IF IsIfIn(t, n + 1) THEN Append(Ifs(s), n + 1) ELSE Ifs(s)
  <2>1. Places(t, e)
    <3>1. n + 1 \in Nat OBVIOUS
    <3> QED BY <1>5, <3>1, IfsPlaces
  <2> HIDE DEF e
  <2>2. d[n] = e[n]
    <3>1. Len(t) \in Nat /\ n <= Len(t) /\ n <= Len(s) /\ Len(s) \in Nat BY <1>5
    <3> QED BY <1>1, <2>1, <3>1, SamePlaces
  <2>3. n + 1 \in 1..Len(t) /\ n + 1 - 1 = n BY <1>5
  <2>4. e[n + 1] = IF IsIfIn(t, n + 1) THEN Append(e[n], n + 1) ELSE e[n]
    BY <2>1, <2>3 DEF Places
  <2> QED BY <1>2, <1>5, <2>2, <2>4
<1> QED BY <1>3, <1>4, <1>5

-----------------------------------------------------------------------------
(***************************************************************************)
(* What waits at the open if statements, as the stack alone has it.        *)
(***************************************************************************)
ViewSet == [second : BOOLEAN, entered : BOOLEAN, joined : BOOLEAN]

View(stack, k) ==
  [second  |-> stack[k].node = "if" /\ stack[k].tight,
   entered |-> Silent(stack, k - 1) /\ (stack[k].node = "if" => stack[k].tight),
   joined  |-> Silent(stack, k - 1) /\ IF stack[k].node = "if" THEN ~stack[k].tight
                                                              ELSE ~stack[k].ifHas]

Views(stack) == [i \in DOMAIN Ifs(stack) |-> View(stack, Ifs(stack)[i])]

LEMMA SameTruth == ASSUME NEW a \in BOOLEAN, NEW b \in BOOLEAN, a <=> b PROVE a = b
OBVIOUS

LEMMA ViewTyped == \A stack, k : View(stack, k) \in ViewSet
<1> SUFFICES ASSUME NEW stack, NEW k PROVE View(stack, k) \in ViewSet
  OBVIOUS
<1>1. /\ (stack[k].node = "if" /\ stack[k].tight) \in BOOLEAN
      /\ (Silent(stack, k - 1) /\ (stack[k].node = "if" => stack[k].tight)) \in BOOLEAN
      /\ (Silent(stack, k - 1) /\ IF stack[k].node = "if" THEN ~stack[k].tight
                                                         ELSE ~stack[k].ifHas) \in BOOLEAN
  OBVIOUS
<1> QED BY <1>1 DEF View, ViewSet

(* A view depends on the statement and on the ones around it.              *)
LEMMA ViewKept ==
  ASSUME NEW s, NEW t, NEW k, Like(t[k], s[k]), \A i \in 1..k-1 : t[i].has = s[i].has
  PROVE  View(t, k) = View(s, k)
<1>1. Silent(t, k - 1) = Silent(s, k - 1)
  <2>1. Silent(t, k - 1) <=> Silent(s, k - 1) BY DEF Silent
  <2>2. Silent(t, k - 1) \in BOOLEAN /\ Silent(s, k - 1) \in BOOLEAN BY DEF Silent
  <2> QED BY <2>1, <2>2, SameTruth
<1> QED BY <1>1 DEF View, Like

(* Two stacks of which one may have a statement more: hasReturn of the     *)
(* statement that has it on top does not count for the ones below.         *)
LEMMA ViewsFacts ==
  ASSUME NEW s, NEW t, NEW n \in Nat, Len(s) = n,
         \A k \in 1..n : Like(t[k], s[k]),
         \A k \in 1..n-1 : t[k].has = s[k].has
  PROVE  /\ Views(s) \in Seq(ViewSet)
         /\ Len(t) = n => Views(t) = Views(s)
         /\ Len(t) = n + 1 =>
              Views(t) = IF IsIfIn(t, n + 1) THEN Append(Views(s), View(t, n + 1)) ELSE Views(s)
<1> DEFINE a == Ifs(s)  b == Ifs(t)
<1>1. /\ a \in Seq({k \in 1..n : IsIfIn(s, k)})
      /\ Len(t) = n => b = a
      /\ Len(t) = n + 1 => b = IF IsIfIn(t, n + 1) THEN Append(a, n + 1) ELSE a
  <2>1. \A k \in 1..n : IsIfIn(s, k) <=> IsIfIn(t, k) BY DEF Like, IsIfIn
  <2> QED BY <2>1, IfsFacts
<1>2. Views(s) = [i \in DOMAIN a |-> View(s, a[i])] /\ Views(t) = [i \in DOMAIN b |-> View(t, b[i])]
  BY DEF Views
<1> HIDE DEF a, b
<1>3. \A i \in DOMAIN a : a[i] \in 1..n BY <1>1
<1>4. \A i \in DOMAIN a : View(t, a[i]) = View(s, a[i])
  <2> SUFFICES ASSUME NEW i \in DOMAIN a PROVE View(t, a[i]) = View(s, a[i])
    OBVIOUS
  <2>1. PICK k \in 1..n : k = a[i] BY <1>3
  <2>2. \A j \in 1..k-1 : t[j].has = s[j].has OBVIOUS
  <2> QED BY <2>1, <2>2, ViewKept
<1>5. Views(s) \in Seq(ViewSet) /\ Len(Views(s)) = Len(a)
  <2>1. Len(a) \in Nat /\ DOMAIN a = 1..Len(a) BY <1>1
  <2>2. \A i \in DOMAIN a : View(s, a[i]) \in ViewSet BY ViewTyped
  <2> DEFINE w == [i \in 1..Len(a) |-> View(s, a[i])]
  <2>3. w \in Seq(ViewSet) /\ Len(w) = Len(a) BY <2>1, <2>2
  <2> QED BY <1>2, <2>1, <2>3
<1>6. ASSUME b = a PROVE Views(t) = Views(s)
  BY <1>2, <1>4, <1>6
<1>7. ASSUME b = Append(a, n + 1) PROVE Views(t) = Append(Views(s), View(t, n + 1))
  <2> DEFINE w == Append(Views(s), View(t, n + 1))  m == Len(a)
  <2>1. /\ m \in Nat /\ DOMAIN a = 1..m /\ DOMAIN b = 1..m+1 /\ b[m+1] = n + 1
        /\ \A i \in 1..m : b[i] = a[i]
    BY <1>1, <1>7
  <2>2. /\ w \in Seq(ViewSet) /\ DOMAIN w = 1..m+1 /\ w[m+1] = View(t, n + 1)
        /\ \A i \in 1..m : w[i] = Views(s)[i]
    BY <1>5, <2>1, ViewTyped
  <2> HIDE DEF w, m
  <2>3. \A i \in 1..m : Views(s)[i] = View(s, a[i]) BY <1>2, <2>1
  <2>4. ASSUME NEW i \in 1..m+1 PROVE w[i] = View(t, b[i])
    <3>1. CASE i \in 1..m BY <1>4, <2>1, <2>2, <2>3, <3>1
    <3>2. CASE i = m + 1 BY <2>1, <2>2, <3>2
    <3> QED BY <2>1, <3>1, <3>2
  <2>5. w = [i \in 1..m+1 |-> w[i]] BY <2>2
  <2>6. w = [i \in 1..m+1 |-> View(t, b[i])] BY <2>4, <2>5
  <2> QED BY <1>2, <2>1, <2>6 DEF w
<1> QED BY <1>1, <1>5, <1>6, <1>7

(* Nothing waits where no if statement is open.                            *)
LEMMA NoViews ==
  /\ Views(<<>>) = <<>>
  /\ \A s : Len(s) = 1 /\ ~IsIfIn(s, 1) => Views(s) = <<>>
<1>1. Views(<<>>) = <<>>
  <2>1. Len(<<>>) = 0 /\ 0 \in Nat OBVIOUS
  <2>2. Ifs(<<>>) \in Seq({k \in 1..0 : IsIfIn(<<>>, k)}) BY <2>1, IfsFacts
  <2>3. Ifs(<<>>) = <<>> BY <2>2
  <2> QED BY <2>3 DEF Views
<1>2. ASSUME NEW s, Len(s) = 1, ~IsIfIn(s, 1) PROVE Views(s) = <<>>
  <2>1. Len(<<>>) = 0 /\ 0 \in Nat /\ Len(s) = 0 + 1 /\ ~IsIfIn(s, 0 + 1) BY <1>2
  <2>3. /\ \A k \in 1..0 : Like(s[k], <<>>[k])
        /\ \A k \in 1..0-1 : s[k].has = <<>>[k].has
    OBVIOUS
  <2>2. Views(s) = Views(<<>>) BY ONLY <2>1, <2>3, ViewsFacts
  <2> QED BY <1>1, <2>2
<1> QED BY <1>1, <1>2

(* The blocks say what the stack does.                                     *)
LEMMA WaitingViews ==
  ASSUME IInv, Reach
  PROVE  /\ Waiting = Views(open) /\ Views(open) \in Seq(ViewSet)
         /\ Live \in BOOLEAN
         /\ Live <=> (open # <<>> /\ Silent(open, Len(open)))
<1> DEFINE a == Ifs(open)  n == Len(open)
<1>1. open \in Seq(Frames) /\ n \in Nat BY DEF IInv, Typed, WalkInv, WalkTyped
<1>2. a \in Seq({k \in 1..n : IsIfIn(open, k)}) /\ Views(open) \in Seq(ViewSet)
  <2>1. \A k \in 1..n : Like(open[k], open[k]) BY DEF Like
  <2>2. \A k \in 1..n : IsIfIn(open, k) <=> IsIfIn(open, k) OBVIOUS
  <2> QED BY <1>1, <2>1, <2>2, IfsFacts, ViewsFacts
<1>3. ASSUME NEW k \in 1..n, IsIfIn(open, k) PROVE Waits(k) = View(open, k)
  <2>1. IfReached(Exits(blocks), open, ids, k) BY DEF Reach
  <2>2. (Label("ELSE", ids[k]) \in Exits(blocks))
          = (Silent(open, k - 1) /\ (open[k].node = "if" => open[k].tight))
    <3>1. (Label("ELSE", ids[k]) \in Exits(blocks))
          <=> (Silent(open, k - 1) /\ (open[k].node = "if" => open[k].tight))
      BY <1>3, <2>1 DEF IfReached, IsIfIn
    <3> QED BY <3>1
  <2>3. (Label("ENDIF", ids[k]) \in Exits(blocks))
          = (Silent(open, k - 1) /\ IF open[k].node = "if" THEN ~open[k].tight
                                                          ELSE ~open[k].ifHas)
    <3>1. (Label("ENDIF", ids[k]) \in Exits(blocks))
          <=> (Silent(open, k - 1) /\ IF open[k].node = "if" THEN ~open[k].tight
                                                            ELSE ~open[k].ifHas)
      BY <1>3, <2>1 DEF IfReached, IsIfIn
    <3> QED BY <3>1
  <2> QED BY <2>2, <2>3 DEF Waits, View
<1>4. \A i \in DOMAIN a : a[i] \in 1..n /\ IsIfIn(open, a[i]) BY <1>2
<1> HIDE DEF a
<1>5. Waiting = [i \in DOMAIN a |-> Waits(a[i])] /\ Views(open) = [i \in DOMAIN a |-> View(open, a[i])]
  BY DEF Waiting, Views, a
<1>6. Waiting = Views(open) BY <1>3, <1>4, <1>5
<1>7. Live <=> (open # <<>> /\ Silent(open, Len(open)))
  BY DEF Live, FallsOff, Reach, HereReached
<1>8. Live \in BOOLEAN BY DEF Live
<1> QED BY <1>2, <1>6, <1>7, <1>8

-----------------------------------------------------------------------------
(***************************************************************************)
(* The refinement: each step does what the source promises, or nothing.    *)
(***************************************************************************)
Alive(stack) == stack # <<>> /\ Silent(stack, Len(stack))

(* Before and after a step.                                                *)
Both == IInv /\ Reach /\ IInv' /\ Reach'

Seen ==
  /\ Waiting = Views(open) /\ Views(open) \in Seq(ViewSet)
  /\ Live \in BOOLEAN
  /\ Live <=> Alive(open)

LEMMA SeenNow == IInv /\ Reach => Seen
BY WaitingViews DEF Seen, Alive

LEMMA SeenNext == (IInv /\ Reach => Seen)'
BY SeenNow, PTL

LEMMA BothViews ==
  ASSUME Both
  PROVE  /\ Waiting = Views(open) /\ Waiting' = Views(open')
         /\ Views(open) \in Seq(ViewSet) /\ Views(open') \in Seq(ViewSet)
         /\ Live \in BOOLEAN /\ Live' \in BOOLEAN
         /\ Live <=> Alive(open)
         /\ Live' <=> Alive(open')
BY SeenNow, SeenNext DEF Both, Seen

LEMMA NothingSeen ==
  ASSUME Both, Views(open') = Views(open), Alive(open') <=> Alive(open), program' = program
  PROVE  UNCHANGED Promised!vars
<1>1. Waiting' = Waiting BY BothViews
<1>2. Live' = Live BY BothViews
<1>3. Voids' = Voids BY DEF Voids
<1> QED BY <1>1, <1>2, <1>3 DEF Promised!vars

LEMMA EnterStep == ASSUME Both, BeginFunction PROVE Promised!Enter
<1>1. open = <<>> /\ open' = <<Frame("func", FALSE, FALSE)>> /\ program' = program
  BY DEF BeginFunction, OpenFunction
<1>2. Len(open') = 1 /\ open'[1].node = "func" /\ ~open'[1].has /\ open' # <<>>
  BY <1>1 DEF Frame
<1>3. Waiting = <<>> /\ Waiting' = <<>>
  <2>1. ~IsIfIn(open', 1) BY <1>2 DEF IsIfIn
  <2> QED BY <1>1, <1>2, <2>1, BothViews, NoViews
<1>4. Live' = TRUE
  <2>1. Alive(open') BY <1>2 DEF Alive, Silent
  <2> QED BY <2>1, BothViews
<1>5. Voids' = Voids BY <1>1 DEF Voids
<1> QED BY <1>3, <1>4, <1>5 DEF Promised!Enter

LEMMA StatementStep == ASSUME Both, Statement PROVE UNCHANGED Promised!vars
<1>1. /\ Len(open) \in Nat \ {0} /\ open # <<>> /\ Len(open') = Len(open)
      /\ \A k \in 1..Len(open) : Like(open'[k], open[k])
      /\ \A k \in 1..Len(open)-1 : open'[k].has = open[k].has
      /\ open'[Len(open)].has <=> (open[Len(open)].has \/ FALSE)
  BY VisitStatementLike DEF Both, Statement, IInv, Typed
<1>2. Views(open') = Views(open) BY <1>1, ViewsFacts
<1>3. open' # <<>> BY <1>1
<1>4. Alive(open') <=> Alive(open)
  <2>1. \A k \in 1..Len(open) : k = Len(open) \/ k \in 1..Len(open)-1 BY <1>1
  <2>2. Silent(open', Len(open')) <=> Silent(open, Len(open)) BY <1>1, <2>1 DEF Silent
  <2> QED BY <1>1, <1>3, <2>2 DEF Alive
<1>5. program' = program BY DEF Statement, irVars
<1> QED BY <1>2, <1>4, <1>5, NothingSeen

LEMMA ReturnStep == ASSUME Both, Return PROVE Promised!Return
<1>1. /\ Len(open) \in Nat \ {0} /\ open # <<>> /\ Len(open') = Len(open)
      /\ \A k \in 1..Len(open) : Like(open'[k], open[k])
      /\ \A k \in 1..Len(open)-1 : open'[k].has = open[k].has
      /\ open'[Len(open)].has <=> (open[Len(open)].has \/ TRUE)
  BY VisitStatementLike DEF Both, Return, IInv, Typed
<1>2. Views(open') = Views(open) BY <1>1, ViewsFacts
<1>3. Live' = FALSE
  <2>1. Len(open) \in 1..Len(open') /\ open'[Len(open)].has BY <1>1
  <2>2. ~Alive(open') BY <2>1 DEF Alive, Silent
  <2> QED BY <2>2, BothViews
<1>4. Voids' = Voids BY DEF Return, Voids
<1> QED BY <1>2, <1>3, <1>4, BothViews DEF Promised!Return

LEMMA BeginBlockStep == ASSUME Both, BeginBlock PROVE UNCHANGED Promised!vars
<1> DEFINE frame == Frame("block", FALSE, FALSE)
<1>1. frame \in Frames /\ frame.node = "block" /\ ~frame.has BY DEF Frame, Frames
<1>2. Pushed(frame)
  BY <1>1, PushedLike DEF BeginBlock, OpenBlock, Accepts, Both, IInv, Typed
<1> HIDE DEF frame
<1>3. /\ Len(open) \in Nat \ {0} /\ open # <<>> /\ Len(open') = Len(open) + 1
      /\ \A k \in 1..Len(open) : Like(open'[k], open[k])
      /\ \A k \in 1..Len(open) : open'[k].has = open[k].has
      /\ open'[Len(open) + 1] = frame
  BY <1>2 DEF Pushed
<1>4. Views(open') = Views(open)
  <2>1. ~IsIfIn(open', Len(open) + 1) BY <1>1, <1>3 DEF IsIfIn
  <2>2. \A k \in 1..Len(open)-1 : open'[k].has = open[k].has BY <1>3
  <2> QED BY <1>3, <2>1, <2>2, ViewsFacts
<1>5. Alive(open') <=> Alive(open)
  <2>1. Silent(open', Len(open) + 1) <=> Silent(open, Len(open))
    BY <1>1, <1>3 DEF Silent
  <2> QED BY <1>3, <2>1 DEF Alive
<1>6. program' = program BY DEF BeginBlock
<1> QED BY <1>4, <1>5, <1>6, NothingSeen

(* The stack before a statement is closed is the one after, and the        *)
(* statement.                                                              *)
LEMMA PoppedViews ==
  ASSUME Both, NEW result, Popped(result)
  PROVE  /\ Views(open) = IF IsIfIn(open, Len(open)) THEN Append(Views(open'), View(open, Len(open)))
                                                     ELSE Views(open')
         /\ Silent(open', Len(open')) <=> (Silent(open, Len(open) - 1) /\ ~result)
         /\ open' # <<>>
<1>1. PICK n \in Nat : n = Len(open) - 1 /\ n > 0 BY DEF Popped
<1>2. /\ Len(open') = n /\ Len(open) = n + 1
      /\ \A k \in 1..n : Like(open[k], open'[k])
      /\ \A k \in 1..n-1 : open[k].has = open'[k].has
      /\ open'[n].has <=> (open[n].has \/ result)
  BY <1>1 DEF Popped, Like
<1>3. Views(open) = IF IsIfIn(open, n + 1) THEN Append(Views(open'), View(open, n + 1))
                                           ELSE Views(open')
  BY <1>2, ViewsFacts
<1>4. Silent(open', n) <=> (Silent(open, n) /\ ~result)
  <2>1. \A k \in 1..n : k = n \/ k \in 1..n-1 BY <1>1
  <2>2. n \in 1..n /\ \A k \in 1..n-1 : k \in 1..n BY <1>1
  <2> QED BY <1>2, <2>1, <2>2 DEF Silent
<1> QED BY <1>1, <1>2, <1>3, <1>4

LEMMA EndBlockStep == ASSUME Both, EndBlock PROVE UNCHANGED Promised!vars
<1>1. /\ Len(open) > 1 /\ open # <<>> /\ open' = Give(Outer, Top.has) /\ Top.has \in BOOLEAN
      /\ Top.node = "block"
  <2>1. open # <<>> /\ open' = Give(Outer, Top.has) /\ Top.node = "block"
    BY DEF EndBlock, CloseBlock
  <2>2. Top \in Frames BY <2>1, OuterFacts DEF Both, IInv, Typed, WalkInv, WalkTyped
  <2> QED BY <2>1, <2>2, CloseBlockWalk DEF EndBlock, Both, IInv, Typed, Frames
<1>2. Popped(Top.has) BY <1>1, PoppedLike DEF Both, IInv, Typed
<1>3. /\ Views(open) = Views(open') /\ open' # <<>>
      /\ Silent(open', Len(open')) <=> (Silent(open, Len(open) - 1) /\ ~Top.has)
  <2>1. ~IsIfIn(open, Len(open)) BY <1>1 DEF Top, IsIfIn
  <2> QED BY <1>2, <2>1, PoppedViews
<1>4. Alive(open') <=> Alive(open)
  <2>1. Silent(open, Len(open)) <=> (Silent(open, Len(open) - 1) /\ ~Top.has)
    BY <1>2, SilentTop DEF Popped, Top
  <2> QED BY <1>1, <1>3, <2>1 DEF Alive
<1>5. program' = program BY DEF EndBlock
<1> QED BY <1>3, <1>4, <1>5, NothingSeen

LEMMA ForkStep ==
  ASSUME Both, NEW hasElse \in BOOLEAN, BeginIf(hasElse)
  PROVE  Promised!Fork(hasElse)
<1> DEFINE frame == Frame("if", hasElse, FALSE)  n == Len(open)
<1>1. frame \in Frames /\ frame.node = "if" /\ frame.tight = hasElse /\ ~frame.has
  BY DEF Frame, Frames
<1>2. Pushed(frame)
  BY <1>1, PushedLike DEF BeginIf, OpenIf, Accepts, Both, IInv, Typed
<1> HIDE DEF frame
<1>3. /\ n \in Nat \ {0} /\ open # <<>> /\ Len(open') = n + 1
      /\ \A k \in 1..n : Like(open'[k], open[k])
      /\ \A k \in 1..n : open'[k].has = open[k].has
      /\ open'[n + 1] = frame
  BY <1>2 DEF Pushed
<1>4. Views(open') = Append(Views(open), View(open', n + 1))
  <2>1. IsIfIn(open', n + 1) BY <1>1, <1>3 DEF IsIfIn
  <2>2. \A k \in 1..n-1 : open'[k].has = open[k].has BY <1>3
  <2> QED BY <1>3, <2>1, <2>2, ViewsFacts
<1>5. Silent(open', n + 1) <=> Silent(open, n)
  BY <1>1, <1>3 DEF Silent
<1>6. Live <=> Silent(open, n)
  BY <1>3, BothViews DEF Alive
<1>7. Live' = Live
  <2>1. open' # <<>> BY <1>3
  <2>2. Alive(open') <=> Alive(open) BY <1>3, <1>5, <2>1 DEF Alive
  <2> QED BY <2>2, BothViews
<1>8. View(open', n + 1) = IF hasElse THEN Promised!If(TRUE, Live, FALSE)
                                      ELSE Promised!If(FALSE, FALSE, Live)
  <2>1. n + 1 - 1 = n BY <1>3
  <2>2. Silent(open', n) <=> Silent(open, n) BY <1>3 DEF Silent
  <2>3. View(open', n + 1) =
          [second  |-> hasElse,
           entered |-> Silent(open', n) /\ hasElse,
           joined  |-> Silent(open', n) /\ ~hasElse]
    BY <1>1, <1>3, <2>1 DEF View
  <2>4. Live \in BOOLEAN BY BothViews
  <2>5. CASE hasElse
    <3>1. /\ (Silent(open', n) /\ hasElse) = Live /\ (Silent(open', n) /\ ~hasElse) = FALSE
          /\ hasElse = TRUE
      BY <1>6, <2>2, <2>4, <2>5
    <3> QED BY <2>3, <2>5, <3>1 DEF Promised!If
  <2>6. CASE ~hasElse
    <3>1. /\ (Silent(open', n) /\ hasElse) = FALSE /\ (Silent(open', n) /\ ~hasElse) = Live
          /\ hasElse = FALSE
      BY <1>6, <2>2, <2>4, <2>6
    <3> QED BY <2>3, <2>6, <3>1 DEF Promised!If
  <2> QED BY <2>5, <2>6
<1>9. Waiting' = Append(Waiting, IF hasElse THEN Promised!If(TRUE, Live, FALSE)
                                            ELSE Promised!If(FALSE, FALSE, Live))
  BY <1>4, <1>8, BothViews
<1>10. Voids' = Voids BY DEF BeginIf, Voids
<1> QED BY <1>7, <1>9, <1>10 DEF Promised!Fork

(* What waits at the innermost if statement, and at the others.            *)
LEMMA InnermostViews ==
  ASSUME NEW w \in Seq(ViewSet), NEW v \in ViewSet, Waiting = Append(w, v)
  PROVE  Waiting # <<>> /\ Promised!Innermost = v /\ Promised!Others = w
<1>1. /\ Waiting \in Seq(ViewSet) /\ Len(Waiting) = Len(w) + 1 /\ Len(w) \in Nat
      /\ Waiting[Len(w) + 1] = v /\ \A i \in 1..Len(w) : Waiting[i] = w[i]
  OBVIOUS
<1>2. Waiting # <<>> BY <1>1
<1>3. /\ Promised!Others \in Seq(ViewSet)
      /\ Len(Promised!Others) = Len(w)
      /\ \A i \in 1..Len(w) : Promised!Others[i] = Waiting[i]
  <2>1. Len(Waiting) - 1 = Len(w) BY <1>1
  <2> QED BY <1>1, <1>2, <2>1, FrontFacts DEF Promised!Others
<1>4. Promised!Others = w BY <1>1, <1>3
<1> QED BY <1>1, <1>2, <1>4 DEF Promised!Innermost

LEMMA SecondBranchStep == ASSUME Both, BeginElse PROVE Promised!SecondBranch
<1> DEFINE n == Len(open)  frame == Frame("else", Below.tight, Top.has)
<1>1. /\ Len(open) > 1 /\ open # <<>> /\ open[n].node = "if" /\ open[n].tight
      /\ open' = Append(Outer, frame)
  <2>1. OpenElse BY DEF BeginElse
  <2> QED BY <2>1, OpenElseWalk DEF OpenElse, Both, IInv, Typed
<1>2. n \in Nat /\ n > 1 /\ open \in Seq(Frames)
  BY <1>1 DEF Both, IInv, Typed, WalkInv, WalkTyped
<1>3. frame \in Frames /\ frame.node = "else" /\ ~frame.has /\ frame.ifHas = open[n].has
      /\ open[n].has \in BOOLEAN
  <2>1. Top \in Frames BY <1>1, <1>2, OuterFacts
  <2>2. Below \in Frames
    <3>1. n - 1 \in 1..n BY <1>2
    <3> QED BY <1>2, <3>1 DEF Below
  <2> QED BY <2>1, <2>2 DEF Frame, Frames, Top
<1> HIDE DEF frame
<1>4. PICK m \in Nat : m = n - 1 /\ m + 1 = n /\ m > 0 BY <1>2
<1>5. /\ Outer \in Seq(Frames) /\ Len(Outer) = m
      /\ \A k \in 1..m : open[k] = Outer[k]
      /\ \A k \in 1..m : open'[k] = Outer[k]
      /\ Len(open') = m + 1 /\ open'[m + 1] = frame
  <2>1. /\ Outer \in Seq(Frames)
        /\ Len(Outer) = n - 1
        /\ \A i \in 1..n-1 : Outer[i] = open[i]
    BY <1>1, <1>2, OuterFacts
  <2>2. Len(Outer) = m /\ \A k \in 1..m : open[k] = Outer[k] BY <1>4, <2>1
  <2>3. open' = Append(Outer, frame) /\ frame \in Frames /\ Outer \in Seq(Frames)
    BY <1>1, <1>3, <2>1 DEF frame
  <2> HIDE DEF n
  <2>4. /\ Len(open') = m + 1 /\ open'[m + 1] = frame
        /\ \A k \in 1..m : open'[k] = Outer[k]
    BY <2>2, <2>3
  <2> QED BY <2>2, <2>3, <2>4
<1>6. /\ Views(Outer) \in Seq(ViewSet)
      /\ Views(open) = Append(Views(Outer), View(open, n))
      /\ Views(open') = Append(Views(Outer), View(open', n))
  <2>1. /\ \A k \in 1..m : Like(open[k], Outer[k]) /\ Like(open'[k], Outer[k])
        /\ \A k \in 1..m-1 : open[k].has = Outer[k].has /\ open'[k].has = Outer[k].has
    BY <1>5 DEF Like
  <2>2. IsIfIn(open, m + 1) /\ IsIfIn(open', m + 1) BY <1>1, <1>3, <1>4, <1>5 DEF IsIfIn
  <2>3. Len(open) = m + 1 BY <1>4
  <2>4. /\ Views(Outer) \in Seq(ViewSet)
        /\ Views(open) = Append(Views(Outer), View(open, m + 1))
    BY ONLY m \in Nat, <1>5, <2>1, <2>2, <2>3, ViewsFacts
  <2>5. Views(open') = Append(Views(Outer), View(open', m + 1))
    BY ONLY m \in Nat, <1>5, <2>1, <2>2, ViewsFacts
  <2>6. m + 1 = n BY <1>4
  <2> QED BY <2>4, <2>5, <2>6
<1>7. /\ Silent(open, n) <=> (Silent(open, m) /\ ~open[n].has)
      /\ Silent(open', n) <=> (Silent(open', m) /\ ~open'[n].has)
      /\ Silent(open', m) <=> Silent(open, m)
  <2>1. Silent(open', m) <=> Silent(open, m) BY <1>5 DEF Silent
  <2> QED BY <1>2, <1>4, <2>1, SilentTop
<1>8. Promised!Innermost = View(open, n) /\ Promised!Others = Views(Outer) /\ Waiting # <<>>
  BY <1>6, BothViews, InnermostViews, ViewTyped
<1>9. /\ Live \in BOOLEAN /\ Live' \in BOOLEAN
      /\ Live <=> Silent(open, n)
      /\ Live' <=> Silent(open, m)
  <2>1. open' # <<>> /\ Len(open') = n BY <1>4, <1>5
  <2> QED BY <1>1, <1>3, <1>4, <1>5, <1>7, <2>1, BothViews DEF Alive
<1>10. View(open, n) = [second |-> TRUE, entered |-> Live', joined |-> FALSE]
  <2>1. /\ (open[n].node = "if" /\ open[n].tight) = TRUE
        /\ (Silent(open, n - 1) /\ (open[n].node = "if" => open[n].tight)) = Live'
        /\ (Silent(open, n - 1) /\ IF open[n].node = "if" THEN ~open[n].tight
                                                        ELSE ~open[n].ifHas) = FALSE
    BY <1>1, <1>4, <1>9
  <2> QED BY <2>1 DEF View
<1>11. View(open', n) = [second |-> FALSE, entered |-> Live', joined |-> Live]
  <2>1. open'[n] = frame BY <1>4, <1>5
  <2>2. /\ (open'[n].node = "if" /\ open'[n].tight) = FALSE
        /\ (Silent(open', n - 1) /\ (open'[n].node = "if" => open'[n].tight)) = Live'
        /\ (Silent(open', n - 1) /\ IF open'[n].node = "if" THEN ~open'[n].tight
                                                          ELSE ~open'[n].ifHas) = Live
    BY <1>3, <1>4, <1>7, <1>9, <2>1
  <2> QED BY <2>2 DEF View
<1>12. Promised!Innermost.second /\ Promised!Innermost.entered = Live'
  BY <1>8, <1>10
<1>13. Waiting' = Append(Promised!Others, Promised!If(FALSE, Promised!Innermost.entered, Live))
  <2>1. View(open', n) = Promised!If(FALSE, Promised!Innermost.entered, Live)
    BY <1>11, <1>12 DEF Promised!If
  <2> QED BY <1>6, <1>8, <2>1, BothViews
<1>14. Voids' = Voids BY DEF BeginElse, Voids
<1> QED BY <1>8, <1>12, <1>13, <1>14 DEF Promised!SecondBranch

LEMMA JoinStep == ASSUME Both, EndIf PROVE Promised!Join
<1> DEFINE n == Len(open)
<1>1. /\ Len(open) > 1 /\ open # <<>> /\ open' = Give(Outer, ifHasReturn)
      /\ open[n].node = "else" \/ (open[n].node = "if" /\ ~open[n].tight)
  <2>1. CloseIf BY DEF EndIf
  <2>2. open # <<>> /\ open' = Give(Outer, ifHasReturn) BY <2>1 DEF CloseIf, AtEndOfIf
  <2> QED BY <2>1, <2>2, CloseIfWalk DEF Both, IInv, Typed
<1>2. Popped(ifHasReturn)
  <2>1. ifHasReturn \in BOOLEAN BY DEF ifHasReturn
  <2> QED BY <1>1, <2>1, PoppedLike DEF Both, IInv, Typed
<1>3. n \in Nat /\ n > 1 BY <1>2 DEF Popped
<1>4. /\ Views(open) = Append(Views(open'), View(open, n))
      /\ Silent(open', Len(open')) <=> (Silent(open, n - 1) /\ ~ifHasReturn)
      /\ open' # <<>>
  <2>1. IsIfIn(open, n) BY <1>1 DEF IsIfIn
  <2> QED BY <1>2, <2>1, PoppedViews
<1>5. Promised!Innermost = View(open, n) /\ Promised!Others = Views(open') /\ Waiting # <<>>
  BY <1>4, BothViews, InnermostViews, ViewTyped
<1>6. Silent(open, n) <=> (Silent(open, n - 1) /\ ~open[n].has)
  BY <1>3, SilentTop
<1>7. /\ Live \in BOOLEAN /\ Live' \in BOOLEAN
      /\ Live <=> Silent(open, n)
      /\ Live' <=> (Silent(open, n - 1) /\ ~ifHasReturn)
  BY <1>1, <1>4, BothViews DEF Alive
<1>8. /\ ~Promised!Innermost.second
      /\ Promised!Innermost.joined <=>
           (Silent(open, n - 1) /\ IF open[n].node = "if" THEN ~open[n].tight ELSE ~open[n].ifHas)
  BY <1>1, <1>5 DEF View
<1>9. Live' <=> (Live \/ Promised!Innermost.joined)
  <2>1. CASE open[n].node = "else"
    <3>1. ifHasReturn <=> (open[n].ifHas /\ open[n].has)
      BY <2>1 DEF ifHasReturn, Top
    <3> QED BY <1>6, <1>7, <1>8, <2>1, <3>1
  <2>2. CASE open[n].node = "if" /\ ~open[n].tight
    <3>1. ~ifHasReturn BY <2>2 DEF ifHasReturn, Top
    <3> QED BY <1>6, <1>7, <1>8, <2>2, <3>1
  <2> QED BY <1>1, <2>1, <2>2
<1>10. Live' = (Live \/ Promised!Innermost.joined) BY <1>7, <1>9
<1>11. Waiting' = Promised!Others BY <1>5, BothViews
<1>12. Voids' = Voids BY DEF EndIf, Voids
<1> QED BY <1>5, <1>8, <1>10, <1>11, <1>12 DEF Promised!Join

LEMMA LeaveStep ==
  ASSUME Both, NEW isVoid \in BOOLEAN, EndFunction(isVoid)
  PROVE  Promised!Leave(isVoid)
<1> DEFINE f == [isVoid |-> isVoid, blocks |-> blocks]
<1>1. /\ Len(open) = 1 /\ open # <<>> /\ open' = <<>>
      /\ Top.has \/ isVoid
      /\ Top.node = "func"
      /\ program' = Append(program, f)
  BY CloseFunctionWalk DEF EndFunction, CloseFunction, Both, IInv, Typed
<1>2. Waiting = <<>> /\ Waiting' = <<>>
  <2>1. ~IsIfIn(open, 1) BY <1>1 DEF IsIfIn, Top
  <2> QED BY <1>1, <2>1, BothViews, NoViews
<1>3. Live => isVoid
  <2>1. Live => ~Top.has
    <3>1. Live <=> Silent(open, 1) BY <1>1, BothViews DEF Alive
    <3> QED BY <1>1, <3>1 DEF Silent, Top
  <2> QED BY <1>1, <2>1
<1>4. Live' = FALSE BY <1>1, BothViews DEF Alive
<1>5. Voids' = Append(Voids, isVoid)
  <2>1. program \in Seq([isVoid : BOOLEAN, blocks : Seq(BlockSet)])
        /\ f \in [isVoid : BOOLEAN, blocks : Seq(BlockSet)]
    BY DEF Both, IInv, Typed
  <2>2. f.isVoid = isVoid OBVIOUS
  <2> HIDE DEF f
  <2> DEFINE m == Len(program)
  <2>3. /\ m \in Nat /\ DOMAIN program = 1..m /\ DOMAIN program' = 1..m+1
        /\ \A p \in 1..m : program'[p] = program[p]
        /\ program'[m+1] = f
        /\ \A p \in 1..m : program[p].isVoid \in BOOLEAN
    <3> DEFINE F == [isVoid : BOOLEAN, blocks : Seq(BlockSet)]
    <3>0. \A g \in F : g.isVoid \in BOOLEAN OBVIOUS
    <3>2. program' = Append(program, f) BY <1>1 DEF f
    <3> HIDE DEF F
    <3>1. program \in Seq(F) /\ f \in F BY <2>1 DEF F
    <3> QED BY <3>0, <3>1, <3>2
  <2> HIDE DEF m
  <2>4. Voids = [p \in 1..m |-> program[p].isVoid] /\ Voids' = [p \in 1..m+1 |-> program'[p].isVoid]
    BY <2>3 DEF Voids
  <2>5. Voids \in Seq(BOOLEAN) /\ Len(Voids) = m
    <3> DEFINE v == [p \in 1..m |-> program[p].isVoid]
    <3>1. v \in Seq(BOOLEAN) /\ Len(v) = m BY <2>3
    <3> QED BY <2>4, <3>1
  <2> DEFINE w == Append(Voids, isVoid)
  <2>6. /\ DOMAIN w = 1..m+1 /\ w[m+1] = isVoid /\ w \in Seq(BOOLEAN)
        /\ \A p \in 1..m : w[p] = Voids[p]
    BY <2>3, <2>5
  <2> HIDE DEF w
  <2>7. w = [p \in 1..m+1 |-> w[p]] BY <2>6
  <2>8. ASSUME NEW p \in 1..m+1 PROVE w[p] = program'[p].isVoid
    <3>1. CASE p \in 1..m BY <2>3, <2>4, <2>6, <3>1
    <3>2. CASE p = m + 1 BY <2>2, <2>3, <2>6, <3>2
    <3> QED BY <2>3, <3>1, <3>2
  <2>9. w = [p \in 1..m+1 |-> program'[p].isVoid] BY <2>7, <2>8
  <2> QED BY <2>4, <2>9 DEF w
<1> QED BY <1>2, <1>3, <1>4, <1>5 DEF Promised!Leave

LEMMA StutterStep == ASSUME UNCHANGED vars PROVE UNCHANGED Promised!vars
BY DEF vars, Promised!vars, Live, Waiting, Waits, Voids

LEMMA TopLevelStep == ASSUME Both, TopLevel PROVE UNCHANGED Promised!vars
BY DEF TopLevel, VisitTopLevel, irVars, Promised!vars, Live, Waiting, Waits, Voids

LEMMA PromisedStep == Both /\ [Next]_vars => [Promised!Next]_(Promised!vars)
<1> SUFFICES ASSUME Both, [Next]_vars PROVE [Promised!Next]_(Promised!vars)
  OBVIOUS
<1>1. CASE TopLevel BY <1>1, TopLevelStep
<1>2. CASE BeginFunction BY <1>2, EnterStep DEF Promised!Next
<1>3. CASE Statement BY <1>3, StatementStep
<1>4. CASE Return BY <1>4, ReturnStep DEF Promised!Next
<1>5. CASE BeginBlock BY <1>5, BeginBlockStep
<1>6. CASE EndBlock BY <1>6, EndBlockStep
<1>7. CASE \E hasElse \in BOOLEAN : BeginIf(hasElse) BY <1>7, ForkStep DEF Promised!Next
<1>8. CASE BeginElse BY <1>8, SecondBranchStep DEF Promised!Next
<1>9. CASE EndIf BY <1>9, JoinStep DEF Promised!Next
<1>10. CASE \E isVoid \in BOOLEAN : EndFunction(isVoid) BY <1>10, LeaveStep DEF Promised!Next
<1>11. CASE Done BY <1>11, StutterStep DEF Done
<1>12. CASE UNCHANGED vars BY <1>12, StutterStep
<1> QED BY <1>1, <1>2, <1>3, <1>4, <1>5, <1>6, <1>7, <1>8, <1>9, <1>10, <1>11, <1>12 DEF Next

(* The blocks mean the statements they were made from, for programs of any *)
(* size and any nesting: every label is entered, and every place reached,  *)
(* exactly when the statements say so, and a function that ends without a  *)
(* value is void (TranslateStmt).                                          *)
THEOREM ImplementsStatements == Spec => StructuredProgram
<1>1. Init => Promised!Init
  <2> SUFFICES ASSUME Init PROVE Promised!Init OBVIOUS
  <2>1. open = <<>> /\ program = <<>> BY DEF Init, WalkInit
  <2>2. Live = FALSE BY <2>1 DEF Live
  <2>3. Waiting = <<>>
    <3>1. Waiting = Views(open)
      <4>1. Len(<<>>) = 0 /\ 0 \in Nat OBVIOUS
      <4>2. Ifs(<<>>) \in Seq({k \in 1..0 : IsIfIn(<<>>, k)}) BY <4>1, IfsFacts
      <4>3. Ifs(open) = <<>> BY <2>1, <4>2
      <4> QED BY <4>3 DEF Waiting, Views
    <3> QED BY <2>1, <3>1, NoViews
  <2>4. Voids = <<>> BY <2>1 DEF Voids
  <2> QED BY <2>2, <2>3, <2>4 DEF Promised!Init
<1>2. IInv /\ Reach /\ IInv' /\ Reach' /\ [Next]_vars => [Promised!Next]_(Promised!vars)
  BY PromisedStep DEF Both
<1> QED BY <1>1, <1>2, InductiveInvariant, ReachKnown, PTL
        DEF Spec, StructuredProgram, Promised!Spec

=============================================================================
