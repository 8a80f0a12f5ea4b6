--------------------------- MODULE StructuredFlow ---------------------------
(***************************************************************************)
(* What a source program promises about its control flow, whatever code it *)
(* is translated to: the place the next statement goes to can be reached   *)
(* or not, a condition may go either way, a return leaves the function,    *)
(* and a function with a value to return does not end any other way.       *)
(*                                                                         *)
(* FlowGraph implements this specification with blocks and labels.         *)
(***************************************************************************)
EXTENDS Naturals, Sequences

VARIABLES
  live,       (* control can come to the place the next statement goes to  *)
  waiting,    (* for each if being visited, outermost first: whether its   *)
              (* second branch is still to come and can be entered, and    *)
              (* whether what follows the statement can already be reached *)
              (* without the branch being visited                          *)
  functions   (* whether each finished one is void                         *)

vars == <<live, waiting, functions>>

If(second, entered, joined) == [second |-> second, entered |-> entered, joined |-> joined]
Innermost         == waiting[Len(waiting)]
Others            == SubSeq(waiting, 1, Len(waiting) - 1)

-----------------------------------------------------------------------------
Init == live = FALSE /\ waiting = <<>> /\ functions = <<>>

Enter ==
  /\ waiting = <<>>
  /\ live' = TRUE
  /\ UNCHANGED <<waiting, functions>>

Return ==
  /\ live' = FALSE
  /\ UNCHANGED <<waiting, functions>>

(* The condition decides between the first branch and the second one, or   *)
(* what follows if there is none.                                          *)
Fork(hasElse) ==
  /\ waiting' = Append(waiting, IF hasElse THEN If(TRUE, live, FALSE) ELSE If(FALSE, FALSE, live))
  /\ UNCHANGED <<live, functions>>

SecondBranch ==
  /\ waiting # <<>> /\ Innermost.second
  /\ live' = Innermost.entered
  /\ waiting' = Append(Others, If(FALSE, Innermost.entered, live))
  /\ UNCHANGED functions

Join ==
  /\ waiting # <<>> /\ ~Innermost.second
  /\ live' = (live \/ Innermost.joined)
  /\ waiting' = Others
  /\ UNCHANGED functions

Leave(isVoid) ==
  /\ waiting = <<>>
  /\ live => isVoid
  /\ functions' = Append(functions, isVoid)
  /\ live' = FALSE
  /\ UNCHANGED waiting

Next ==
  \/ Enter
  \/ Return
  \/ \E hasElse \in BOOLEAN : Fork(hasElse)
  \/ SecondBranch
  \/ Join
  \/ \E isVoid \in BOOLEAN : Leave(isVoid)

Spec == Init /\ [][Next]_vars

=============================================================================
