---------------------------- MODULE NebulaTypes ----------------------------
(***************************************************************************)
(* The type system of the Nebula compiler: the kinds of                    *)
(* nbuFrontend::Type, the typeSize table, the two functions that decide    *)
(* which conversions the semantic analyser accepts (resolve_type and       *)
(* tryPromote), and the size_t arithmetic that struct layout and stack     *)
(* frames are computed with.                                               *)
(*                                                                         *)
(* A type is a record [kind, name]; name is "" except for an enum or a     *)
(* struct.  The C++ operators == and != compare the kind alone, so every   *)
(* comparison below does too.                                              *)
(***************************************************************************)
EXTENDS Integers, Sequences

CONSTANT
  Word    (* Number of values of the unsigned word offsets are kept in.    *)
          (* 2^64 (size_t) or 2^32 (Semantic::offset) in the program.      *)

ASSUME WordAssumption == Word \in Nat /\ Word >= 32 /\ Word % 8 = 0

Kinds == {"FLOAT32", "FLOAT64", "INT32", "INT64", "UINT32", "UINT64",
          "INT16", "UINT16", "INT8", "UINT8", "VADDR", "PADDR",
          "ENUM", "STRUCT", "VOID"}

Builtin(k) == [kind |-> k, name |-> ""]

(***************************************************************************)
(* typeSize.  VOID and ENUM hold the sentinels -1 and -2; STRUCT is not in *)
(* the table and operator[] adds it with the value 0.                      *)
(***************************************************************************)
typeSize ==
  [k \in Kinds |->
     CASE k \in {"INT8", "UINT8"}                                    -> 1
       [] k \in {"INT16", "UINT16"}                                  -> 2
       [] k \in {"INT32", "UINT32", "FLOAT32"}                       -> 4
       [] k \in {"INT64", "UINT64", "FLOAT64", "VADDR", "PADDR"}     -> 8
       [] k = "VOID"                                                 -> -1
       [] k = "ENUM"                                                 -> -2
       [] k = "STRUCT"                                               -> 0]

(* The table holds size_t: a sentinel read as a size is a huge number.     *)
SizeT(k) == IF typeSize[k] < 0 THEN Word + typeSize[k] ELSE typeSize[k]

-----------------------------------------------------------------------------
(***************************************************************************)
(* Word arithmetic.                                                        *)
(***************************************************************************)
Words == 0..Word-1

(* What a scalar or a struct of scalars can have for an alignment.         *)
Alignments == {1, 2, 4, 8}

(* The same, and the two sentinels of typeSize read as sizes.              *)
AllAlignments == Alignments \cup {Word - 1, Word - 2}

(***************************************************************************)
(* (x + a - 1) & ~(a - 1) on words.  For a power of two it rounds x up to  *)
(* a multiple of a.  For the two sentinels, ~(a - 1) is 2 and 1: one bit   *)
(* of the sum is left.                                                     *)
(***************************************************************************)
AlignUp(x, a) ==
  LET y == (x + a - 1) % Word
  IN  CASE a = Word - 1 -> y % 2
        [] a = Word - 2 -> 2 * ((y \div 2) % 2)
        [] OTHER        -> y - (y % a)

(* AlignUp and an addition of size after it stay below Word.               *)
NoWrap(x, a, size) == x + a - 1 + size < Word

-----------------------------------------------------------------------------
(***************************************************************************)
(* Conversions.                                                            *)
(***************************************************************************)

(* resolve_type tests these kinds in this order, on either side.           *)
Ladder == <<"FLOAT64", "FLOAT32", "VADDR", "PADDR", "UINT64", "INT64", "UINT32">>

(* Semantic::resolve_type.  The left operand is returned as it is when the *)
(* kinds are equal (its name with it).                                     *)
resolve_type(left, right) ==
  IF left.kind = right.kind THEN left
  ELSE LET hits == {i \in DOMAIN Ladder : Ladder[i] \in {left.kind, right.kind}}
       IN  IF hits = {} THEN Builtin("INT32")
           ELSE Builtin(Ladder[CHOOSE i \in hits : \A j \in hits : i <= j])

(* The size tryPromote gives a type; backing maps an enum's name to the    *)
(* kind of its backing_type.                                               *)
PromotionSize(t, backing) ==
  IF t.kind = "ENUM" THEN typeSize[backing[t.name]] ELSE typeSize[t.kind]

(* Semantic::tryPromote: the target if the conversion is accepted, the     *)
(* current type if it is not.                                              *)
tryPromote(current, target, backing) ==
  IF \/ resolve_type(current, target).kind = target.kind
     \/ PromotionSize(target, backing) >= PromotionSize(current, backing)
  THEN target
  ELSE current

(* What every caller does with the result: a type error is printed when    *)
(* the kinds differ and the promotion handed back the type it was given.   *)
TypeError(from, to, backing) ==
  /\ from.kind # to.kind
  /\ tryPromote(from, to, backing).kind = from.kind

=============================================================================
