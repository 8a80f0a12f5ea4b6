-------------------------- MODULE SourceWalkProofs --------------------------
(***************************************************************************)
(* What every pass that walks a program can rely on, for programs of any   *)
(* size: the stack of open statements is well formed, and how each step of *)
(* the walk changes it.                                                    *)
(***************************************************************************)
EXTENDS SourceWalk, SequenceTheorems, TLAPS

WalkTyped == open \in Seq(Frames) /\ nodes \in 0..MaxNodes

(* A function is the outermost statement and nothing else; whatever is     *)
(* open below the top has been given the part that is being visited.       *)
WalkShape ==
  /\ \A i \in 1..Len(open) : open[i].node = "func" => i = 1
  /\ open # <<>> => open[1].node = "func"
  /\ \A i \in 1..Len(open)-1 : open[i].node = "block" \/ open[i].full

WalkInv == WalkTyped /\ WalkShape

(* The stack keeps its statements up to depth d: only what is known of     *)
(* their parts changes.                                                    *)
SameUpTo(d) == \A i \in 1..d : /\ open'[i].node = open[i].node
                               /\ open'[i].tight = open[i].tight

-----------------------------------------------------------------------------
(* A sequence without its last element.                                    *)
LEMMA FrontFacts ==
  ASSUME NEW S, NEW s \in Seq(S), s # <<>>
  PROVE  /\ Len(s) \in Nat \ {0}
         /\ s[Len(s)] \in S
         /\ SubSeq(s, 1, Len(s) - 1) \in Seq(S)
         /\ Len(SubSeq(s, 1, Len(s) - 1)) = Len(s) - 1
         /\ \A i \in 1..Len(s)-1 : SubSeq(s, 1, Len(s) - 1)[i] = s[i]
<1>1. Len(s) \in Nat \ {0} /\ \A i \in 1..Len(s) : s[i] \in S
  BY EmptySeq, ElementOfSeq
<1> DEFINE n == Len(s) - 1
<1>2. n \in Int /\ \A i \in 1..n : s[i] \in S
  BY <1>1
<1> HIDE DEF n
<1>3. /\ SubSeq(s, 1, n) \in Seq(S)
      /\ Len(SubSeq(s, 1, n)) = IF 1 <= n THEN n - 1 + 1 ELSE 0
      /\ \A i \in 1 .. n-1+1 : SubSeq(s, 1, n)[i] = s[1+i-1]
  BY <1>2, SubSeqProperties
<1>4. n \in Nat /\ n = Len(s) - 1
  BY <1>1 DEF n
<1>5. ASSUME NEW i \in 1..n PROVE SubSeq(s, 1, n)[i] = s[i]
  <2>1. i \in 1..n-1+1 /\ 1 + i - 1 = i BY <1>4
  <2> QED BY <2>1, <1>3
<1>6. Len(SubSeq(s, 1, n)) = n BY <1>3, <1>4
<1> QED BY <1>1, <1>3, <1>4, <1>5, <1>6

(* The nodes are counted up to the bound.                                  *)
LEMMA CountTyped ==
  ASSUME nodes \in 0..MaxNodes, Count
  PROVE  nodes' \in 0..MaxNodes
BY WalkAssumption DEF Count

(* The stack without its top.                                              *)
LEMMA OuterFacts ==
  ASSUME open \in Seq(Frames), open # <<>>
  PROVE  /\ Outer \in Seq(Frames)
         /\ Len(Outer) = Len(open) - 1
         /\ \A i \in 1..Len(open)-1 : Outer[i] = open[i]
         /\ Len(open) \in Nat \ {0}
         /\ Top \in Frames
BY FrontFacts DEF Outer, Top

(* The stack with a part given to its top (Filled).                        *)
LEMMA FilledFacts ==
  ASSUME open \in Seq(Frames), open # <<>>
  PROVE  /\ Filled \in Seq(Frames)
         /\ Len(Filled) = Len(open)
         /\ \A i \in 1..Len(open)-1 : Filled[i] = open[i]
         /\ Filled[Len(open)].node = Top.node
         /\ Filled[Len(open)].tight = Top.tight
         /\ Top.node # "block" => Filled[Len(open)].full
<1>1. Len(open) \in Nat \ {0} /\ Top \in Frames
  BY OuterFacts
<1>2. Outer \in Seq(Frames) /\ Len(Outer) = Len(open) - 1
      /\ \A i \in 1..Len(open)-1 : Outer[i] = open[i]
  BY OuterFacts
<1> DEFINE top == [Top EXCEPT !.full = (Top.node # "block")]
<1>3. top \in Frames /\ top.node = Top.node /\ top.tight = Top.tight
      /\ (Top.node # "block" => top.full)
  BY <1>1 DEF Frames
<1> HIDE DEF top
<1>4. Filled = Append(Outer, top)
  BY DEF Filled, top
<1>5. /\ Filled \in Seq(Frames)
      /\ Len(Filled) = Len(open)
      /\ \A i \in 1..Len(open)-1 : Filled[i] = open[i]
      /\ Filled[Len(open)] = top
  BY <1>1, <1>2, <1>3, <1>4
<1> QED BY <1>3, <1>5 DEF top

(* The stack with a result handed to its top (Give).                       *)
LEMMA GiveFacts ==
  ASSUME NEW stack \in Seq(Frames), stack # <<>>, NEW has \in BOOLEAN
  PROVE  /\ Give(stack, has) \in Seq(Frames)
         /\ Len(Give(stack, has)) = Len(stack)
         /\ \A i \in DOMAIN stack : /\ Give(stack, has)[i].node = stack[i].node
                                    /\ Give(stack, has)[i].full = stack[i].full
                                    /\ Give(stack, has)[i].tight = stack[i].tight
<1>1. Len(stack) \in DOMAIN stack /\ stack[Len(stack)] \in Frames
  OBVIOUS
<1> DEFINE top == [stack[Len(stack)] EXCEPT !.has = @ \/ has]
<1>2. top \in Frames /\ top.node = stack[Len(stack)].node /\ top.full = stack[Len(stack)].full
      /\ top.tight = stack[Len(stack)].tight
  BY <1>1 DEF Frames
<1> HIDE DEF top
<1>3. Give(stack, has) = [stack EXCEPT ![Len(stack)] = top]
  BY DEF Give, top
<1> QED BY <1>1, <1>2, <1>3

-----------------------------------------------------------------------------
(***************************************************************************)
(* The steps.                                                              *)
(***************************************************************************)
LEMMA WalkInitInv == WalkInit => WalkInv
BY WalkAssumption DEF WalkInit, WalkInv, WalkTyped, WalkShape

LEMMA VisitTopLevelWalk ==
  ASSUME WalkInv, VisitTopLevel
  PROVE  WalkInv' /\ open' = <<>> /\ open = <<>>
BY CountTyped DEF WalkInv, WalkTyped, WalkShape, VisitTopLevel

LEMMA OpenFunctionWalk ==
  ASSUME WalkInv, OpenFunction
  PROVE  /\ WalkInv' /\ open = <<>> /\ Len(open') = 1
         /\ open'[1].node = "func" /\ ~open'[1].full
<1>1. PICK frame \in Frames : /\ frame.node = "func" /\ ~frame.full
                             /\ open' = <<frame>>
  BY DEF OpenFunction, Frame, Frames
<1>2. open = <<>> /\ nodes' \in 0..MaxNodes
  BY CountTyped DEF OpenFunction, WalkInv, WalkTyped
<1>3. open' \in Seq(Frames) /\ Len(open') = 1 /\ open'[1] = frame
  BY <1>1
<1> QED BY <1>1, <1>2, <1>3 DEF WalkInv, WalkTyped, WalkShape

LEMMA VisitStatementWalk ==
  ASSUME WalkInv, NEW isReturn \in BOOLEAN, VisitStatement(isReturn)
  PROVE  /\ WalkInv' /\ open # <<>>
         /\ Len(open') = Len(open) /\ SameUpTo(Len(open))
         /\ open'[Len(open)].node = "func" => open'[Len(open)].full
<1>1. open \in Seq(Frames) /\ open # <<>> /\ open' = Give(Filled, isReturn)
      /\ nodes' \in 0..MaxNodes
  BY CountTyped DEF VisitStatement, Accepts, WalkInv, WalkTyped
<1>2. /\ Filled \in Seq(Frames)
      /\ Len(Filled) = Len(open)
      /\ \A i \in 1..Len(open)-1 : Filled[i] = open[i]
      /\ Filled[Len(open)].node = open[Len(open)].node
      /\ Filled[Len(open)].tight = open[Len(open)].tight
      /\ open[Len(open)].node # "block" => Filled[Len(open)].full
  BY <1>1, FilledFacts DEF Top
<1>3. Filled # <<>> BY <1>1, <1>2
<1>4. /\ open' \in Seq(Frames)
      /\ Len(open') = Len(open)
      /\ \A i \in 1..Len(open) : /\ open'[i].node = Filled[i].node
                                 /\ open'[i].full = Filled[i].full
                                 /\ open'[i].tight = Filled[i].tight
  BY <1>1, <1>2, <1>3, GiveFacts
<1>5. SameUpTo(Len(open)) BY <1>1, <1>2, <1>4 DEF SameUpTo
<1>6. /\ \A i \in 1..Len(open) : open'[i].node = open[i].node
      /\ \A i \in 1..Len(open)-1 : open'[i].full = open[i].full
      /\ Len(open) \in Nat \ {0}
  <2>1. Len(open) \in Nat \ {0} BY <1>1, OuterFacts
  <2>2. \A i \in 1..Len(open) : open'[i].node = open[i].node
    BY <1>2, <1>4, <2>1
  <2>3. \A i \in 1..Len(open)-1 : open'[i].full = open[i].full
    BY <1>2, <1>4, <2>1
  <2> QED BY <2>1, <2>2, <2>3
<1>7. WalkShape'
  BY <1>1, <1>4, <1>6 DEF WalkShape, WalkInv
<1>8. open'[Len(open)].node = "func" => open'[Len(open)].full
  BY <1>2, <1>4, <1>6
<1> QED BY <1>1, <1>4, <1>5, <1>7, <1>8 DEF WalkInv, WalkTyped

(* Opening a statement inside another.                                     *)
LEMMA OpenInside ==
  ASSUME WalkInv, open # <<>>, NEW frame \in Frames, frame.node # "func",
         open' = Append(Filled, frame), nodes' \in 0..MaxNodes
  PROVE  /\ WalkInv'
         /\ Len(open') = Len(open) + 1 /\ SameUpTo(Len(open))
         /\ open'[Len(open) + 1].node = frame.node
         /\ open'[Len(open) + 1].tight = frame.tight
<1>1. open \in Seq(Frames) /\ Len(open) \in Nat \ {0}
  BY DEF WalkInv, WalkTyped
<1>2. /\ Filled \in Seq(Frames)
      /\ Len(Filled) = Len(open)
      /\ \A i \in 1..Len(open)-1 : Filled[i] = open[i]
      /\ Filled[Len(open)].node = open[Len(open)].node
      /\ Filled[Len(open)].tight = open[Len(open)].tight
      /\ open[Len(open)].node # "block" => Filled[Len(open)].full
  BY <1>1, FilledFacts DEF Top
<1>3. /\ open' \in Seq(Frames)
      /\ Len(open') = Len(open) + 1
      /\ \A i \in 1..Len(open) : open'[i] = Filled[i]
      /\ open'[Len(open) + 1] = frame
  BY <1>1, <1>2
<1>4. SameUpTo(Len(open)) BY <1>1, <1>2, <1>3 DEF SameUpTo
<1>5. WalkShape'
  BY <1>1, <1>2, <1>3 DEF WalkShape, WalkInv
<1> QED BY <1>3, <1>4, <1>5 DEF WalkInv, WalkTyped

LEMMA OpenBlockWalk ==
  ASSUME WalkInv, OpenBlock
  PROVE  /\ WalkInv' /\ open # <<>>
         /\ Len(open') = Len(open) + 1 /\ SameUpTo(Len(open))
         /\ open'[Len(open) + 1].node = "block"
<1>1. Frame("block", FALSE, FALSE) \in Frames /\ Frame("block", FALSE, FALSE).node = "block"
  BY DEF Frame, Frames
<1>2. open # <<>> /\ open' = Append(Filled, Frame("block", FALSE, FALSE))
      /\ nodes' \in 0..MaxNodes
  BY DEF OpenBlock, Accepts, WalkInv, WalkTyped
<1> QED BY <1>1, <1>2, OpenInside

LEMMA OpenIfWalk ==
  ASSUME WalkInv, NEW hasElse \in BOOLEAN, OpenIf(hasElse)
  PROVE  /\ WalkInv' /\ open # <<>>
         /\ Len(open') = Len(open) + 1 /\ SameUpTo(Len(open))
         /\ open'[Len(open) + 1].node = "if"
         /\ open'[Len(open) + 1].tight = hasElse
<1>1. Frame("if", hasElse, FALSE) \in Frames /\ Frame("if", hasElse, FALSE).node = "if"
      /\ Frame("if", hasElse, FALSE).tight = hasElse
  BY DEF Frame, Frames
<1>2. open # <<>> /\ open' = Append(Filled, Frame("if", hasElse, FALSE))
      /\ nodes' \in 0..MaxNodes
  BY CountTyped DEF OpenIf, Accepts, WalkInv, WalkTyped
<1> QED BY <1>1, <1>2, OpenInside

LEMMA OpenElseWalk ==
  ASSUME WalkInv, OpenElse
  PROVE  /\ WalkInv' /\ Len(open) > 1
         /\ Len(open') = Len(open) /\ SameUpTo(Len(open) - 1)
         /\ open[Len(open)].node = "if" /\ open[Len(open)].tight
         /\ open'[Len(open)].node = "else"
<1>1. open \in Seq(Frames) /\ open # <<>> /\ Top.node = "if" /\ nodes' \in 0..MaxNodes
  BY DEF OpenElse, WalkInv, WalkTyped
<1>2. Len(open) \in Nat /\ Len(open) > 1
  BY <1>1 DEF Top, WalkInv, WalkShape
<1>3. PICK frame \in Frames : frame.node = "else" /\ open' = Append(Outer, frame)
  <2>1. Below \in Frames /\ Top \in Frames
    BY <1>1, <1>2 DEF Below, Top
  <2>2. Frame("else", Below.tight, Top.has) \in Frames
        /\ Frame("else", Below.tight, Top.has).node = "else"
    BY <2>1 DEF Frame, Frames
  <2> QED BY <2>2 DEF OpenElse
<1>4. /\ open' \in Seq(Frames)
      /\ Len(open') = Len(open)
      /\ \A i \in 1..Len(open)-1 : open'[i] = open[i]
      /\ open'[Len(open)] = frame
  BY <1>1, <1>2, <1>3, OuterFacts
<1>5. SameUpTo(Len(open) - 1) BY <1>4 DEF SameUpTo
<1>6. WalkShape'
  BY <1>1, <1>2, <1>3, <1>4 DEF WalkShape, WalkInv
<1>7. open[Len(open)].node = "if" /\ open[Len(open)].tight
  BY DEF OpenElse, Top
<1> QED BY <1>1, <1>2, <1>3, <1>4, <1>5, <1>6, <1>7 DEF WalkInv, WalkTyped

(* Closing a statement inside another.                                     *)
LEMMA CloseInside ==
  ASSUME WalkInv, Len(open) > 1, NEW has \in BOOLEAN,
         open' = Give(Outer, has), nodes' = nodes
  PROVE  /\ WalkInv'
         /\ Len(open') = Len(open) - 1 /\ SameUpTo(Len(open) - 1)
         /\ \A i \in 1..Len(open)-1 : open'[i].full = open[i].full
<1>1. open \in Seq(Frames) /\ open # <<>> /\ Len(open) \in Nat
  BY DEF WalkInv, WalkTyped
<1>2. /\ Outer \in Seq(Frames)
      /\ Len(Outer) = Len(open) - 1
      /\ \A i \in 1..Len(open)-1 : Outer[i] = open[i]
  BY <1>1, OuterFacts
<1>3. Outer # <<>> BY <1>1, <1>2
<1>4. /\ open' \in Seq(Frames)
      /\ Len(open') = Len(open) - 1
      /\ \A i \in 1..Len(open)-1 : /\ open'[i].node = open[i].node
                                   /\ open'[i].full = open[i].full
                                   /\ open'[i].tight = open[i].tight
  BY <1>1, <1>2, <1>3, GiveFacts
<1>5. SameUpTo(Len(open) - 1) BY <1>4 DEF SameUpTo
<1>6. WalkShape'
  BY <1>1, <1>4 DEF WalkShape, WalkInv
<1> QED BY <1>4, <1>5, <1>6 DEF WalkInv, WalkTyped

LEMMA CloseIfWalk ==
  ASSUME WalkInv, CloseIf
  PROVE  /\ WalkInv' /\ Len(open) > 1
         /\ Len(open') = Len(open) - 1 /\ SameUpTo(Len(open) - 1)
         /\ \A i \in 1..Len(open)-1 : open'[i].full = open[i].full
         /\ open[Len(open)].node = "else"
            \/ (open[Len(open)].node = "if" /\ ~open[Len(open)].tight)
<1>1. open \in Seq(Frames) /\ open # <<>> /\ Top.node \in {"if", "else"}
      /\ (Top.node = "else" \/ (Top.node = "if" /\ ~Top.tight))
  BY DEF CloseIf, AtEndOfIf, WalkInv, WalkTyped
<1>2. Len(open) \in Nat /\ Len(open) > 1
  BY <1>1 DEF Top, WalkInv, WalkShape
<1>3. ifHasReturn \in BOOLEAN
  BY DEF ifHasReturn
<1> QED BY <1>1, <1>2, <1>3, CloseInside DEF CloseIf, Top

LEMMA CloseBlockWalk ==
  ASSUME WalkInv, CloseBlock
  PROVE  /\ WalkInv' /\ Len(open) > 1
         /\ Len(open') = Len(open) - 1 /\ SameUpTo(Len(open) - 1)
         /\ \A i \in 1..Len(open)-1 : open'[i].full = open[i].full
<1>1. open \in Seq(Frames) /\ open # <<>> /\ Top.node = "block"
  BY DEF CloseBlock, WalkInv, WalkTyped
<1>2. Len(open) \in Nat /\ Len(open) > 1
  BY <1>1 DEF Top, WalkInv, WalkShape
<1>3. Top.has \in BOOLEAN
  BY <1>1, OuterFacts DEF Frames
<1> QED BY <1>2, <1>3, CloseInside DEF CloseBlock

LEMMA CloseFunctionWalk ==
  ASSUME WalkInv, CloseFunction
  PROVE  WalkInv' /\ Len(open) = 1 /\ open' = <<>>
<1>1. open \in Seq(Frames) /\ open # <<>> /\ Top.node = "func" /\ open' = <<>>
      /\ nodes' \in 0..MaxNodes
  BY DEF CloseFunction, WalkInv, WalkTyped
<1>2. Len(open) = 1
  BY <1>1, OuterFacts DEF Top, WalkInv, WalkShape
<1> QED BY <1>1, <1>2 DEF WalkInv, WalkTyped, WalkShape

=============================================================================
