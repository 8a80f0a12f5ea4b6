------------------------- MODULE StructLayoutProofs -------------------------
(***************************************************************************)
(* Proofs about struct layout, for every set of struct names, every set of *)
(* field kinds, structs of any length and every word.                      *)
(***************************************************************************)
EXTENDS StructLayout, TLAPS

-----------------------------------------------------------------------------
(***************************************************************************)
(* Word arithmetic.                                                        *)
(***************************************************************************)

(* A remainder by the word's modulus is a word, and a word is its own.     *)
LEMMA ModWord ==
  ASSUME NEW y \in Nat
  PROVE  /\ y % Word \in Words
         /\ y \in Words => y % Word = y
BY WordAssumption DEF Words

(* Whatever the alignment, rounding a word up gives a word: 0 or 2 for the *)
(* sentinels (AlignUp).                                                    *)
LEMMA AlignUpWord ==
  ASSUME NEW x \in Words, NEW a \in AllAlignments
  PROVE  AlignUp(x, a) \in Words
<1> DEFINE y == (x + a - 1) % Word
<1>1. x + a - 1 \in Nat
  BY WordAssumption DEF Words, AllAlignments, Alignments
<1>2. y \in Words
  BY <1>1, ModWord
<1> HIDE DEF y
<1>3. /\ y % 2 \in Words
      /\ 2 * ((y \div 2) % 2) \in Words
  BY <1>2, WordAssumption DEF Words
<1>4. ASSUME a \in Alignments PROVE y - (y % a) \in Words
  <2>1. CASE a = 1 BY <2>1, <1>2, WordAssumption DEF Words
  <2>2. CASE a = 2 BY <2>2, <1>2, WordAssumption DEF Words
  <2>3. CASE a = 4 BY <2>3, <1>2, WordAssumption DEF Words
  <2>4. CASE a = 8 BY <2>4, <1>2, WordAssumption DEF Words
  <2> QED BY <1>4, <2>1, <2>2, <2>3, <2>4 DEF Alignments
<1> QED BY <1>3, <1>4 DEF AlignUp, AllAlignments, y

(* Rounding up by a scalar's alignment, when nothing wraps: the next       *)
(* multiple of the alignment, less than one alignment away (AlignUp).      *)
LEMMA AlignUpBounds ==
  ASSUME NEW x \in Words, NEW a \in Alignments, NEW size \in Words,
         NoWrap(x, a, size)
  PROVE  /\ AlignUp(x, a) \in Words
         /\ x <= AlignUp(x, a)
         /\ AlignUp(x, a) < x + a
         /\ AlignUp(x, a) % a = 0
         /\ AlignUp(x, a) + size \in Words
<1>1. /\ x + a - 1 \in Words
      /\ x + a - 1 + size \in Words
  BY WordAssumption DEF Words, Alignments, NoWrap
<1>2. (x + a - 1) % Word = x + a - 1
  BY <1>1, ModWord DEF Words
<1>3. /\ a # Word - 1
      /\ a # Word - 2
  BY WordAssumption DEF Alignments
<1>4. PICK z \in Words : z = x + a - 1
  BY <1>1
<1>5. AlignUp(x, a) = z - (z % a)
  BY <1>2, <1>3, <1>4 DEF AlignUp
<1>6. /\ z % a \in 0..a-1
      /\ (z - (z % a)) % a = 0
  <2>1. CASE a = 1 BY <2>1, WordAssumption DEF Words
  <2>2. CASE a = 2 BY <2>2, WordAssumption DEF Words
  <2>3. CASE a = 4 BY <2>3, WordAssumption DEF Words
  <2>4. CASE a = 8 BY <2>4, WordAssumption DEF Words
  <2> QED BY <2>1, <2>2, <2>3, <2>4 DEF Alignments
<1>7. PICK r \in 0..a-1 : r = z % a
  BY <1>6
<1>8. /\ z - r \in Words
      /\ x <= z - r
      /\ z - r < x + a
      /\ z - r + size \in Words
  BY <1>1, <1>4, <1>7, WordAssumption DEF Words, Alignments
<1> QED BY <1>5, <1>6, <1>7, <1>8

(* A multiple of a scalar's alignment is one of every smaller alignment,   *)
(* and stays one when a multiple of the smaller is added.                  *)
LEMMA AlignmentsNest ==
  ASSUME NEW a \in Alignments, NEW b \in Alignments, b <= a,
         NEW x \in Nat, NEW y \in Nat, x % a = 0, y % b = 0
  PROVE  (x + y) % b = 0
<1>1. CASE b = 1 BY <1>1
<1>2. CASE b = 2 BY <1>2 DEF Alignments
<1>3. CASE b = 4 BY <1>3 DEF Alignments
<1>4. CASE b = 8 BY <1>4 DEF Alignments
<1> QED BY <1>1, <1>2, <1>3, <1>4 DEF Alignments

-----------------------------------------------------------------------------
(***************************************************************************)
(* The inductive invariant.                                                *)
(*                                                                         *)
(* The safety properties speak of registered structs; what makes them true *)
(* is an invariant of structSize's loop, on the members laid out so far.   *)
(* It has to hold of the members' end, the running size, as well.          *)
(***************************************************************************)

(* The members fs do not overlap and end by r.                             *)
Separate(fs, r) ==
  /\ \A i, j \in DOMAIN fs : i < j => End(fs[i]) <= fs[j].offset
  /\ \A i \in DOMAIN fs : End(fs[i]) <= r

(* The members fs are aligned, no more strictly than m, and a struct among *)
(* them was laid out without wrapping.                                     *)
Placed(fs, m) ==
  \A i \in DOMAIN fs :
    /\ FieldAlignment(fs[i].type) \in Alignments
    /\ FieldAlignment(fs[i].type) <= m
    /\ fs[i].offset % FieldAlignment(fs[i].type) = 0
    /\ FieldExact(fs[i].type)

(* The gap in front of every member is smaller than its alignment.         *)
Snug(fs) ==
  \A i \in DOMAIN fs :
    fs[i].offset - PreviousEnd(fs, i) < FieldAlignment(fs[i].type)

AlignmentsKnown ==
  /\ maxAlignment \in AllAlignments
  /\ \A n \in DOMAIN registry : registry[n].alignment \in AllAlignments

LoopInv ==
  exact /\ maxAlignment \in Alignments =>
    /\ Separate(fields, ret)
    /\ Placed(fields, maxAlignment)
    /\ Snug(fields)
    /\ PreviousEnd(fields, Len(fields) + 1) = ret

RegisteredInv ==
  \A n \in DOMAIN registry :
    LET info == registry[n]
    IN  Ordinary(info) =>
          /\ Separate(info.fields, info.size)
          /\ Placed(info.fields, info.alignment)
          /\ Snug(info.fields)
          /\ info.size % info.alignment = 0
          /\ info.size - PreviousEnd(info.fields, Len(info.fields) + 1)
               < info.alignment

IInv == TypeOK /\ AlignmentsKnown /\ LoopInv /\ RegisteredInv

-----------------------------------------------------------------------------
(***************************************************************************)
(* Field types.                                                            *)
(***************************************************************************)

(* A member's type is builtin or an enum, or a registered struct.          *)
LEMMA FieldTypeCases ==
  ASSUME NEW t \in FieldTypes
  PROVE  \/ /\ t.kind # "STRUCT"
            /\ \E k \in FieldKinds : k \in Kinds /\ t = Builtin(k)
         \/ /\ t.kind = "STRUCT"
            /\ \E n \in DOMAIN registry : t = [kind |-> "STRUCT", name |-> n]
<1>1. CASE t \in {Builtin(k) : k \in FieldKinds}
  <2>1. PICK k \in FieldKinds : t = Builtin(k) BY <1>1
  <2>2. k \in Kinds /\ k # "STRUCT" BY LayoutAssumption
  <2>3. t.kind = k BY <2>1 DEF Builtin
  <2> QED BY <2>1, <2>2, <2>3
<1>2. CASE t \in {[kind |-> "STRUCT", name |-> n] : n \in DOMAIN registry}
  <2>1. PICK n \in DOMAIN registry : t = [kind |-> "STRUCT", name |-> n] BY <1>2
  <2>2. t.kind = "STRUCT" BY <2>1
  <2> QED BY <2>1, <2>2
<1> QED BY <1>1, <1>2 DEF FieldTypes

(* What structSize reads of a member of any type it can meet.              *)
LEMMA FieldFacts ==
  ASSUME TypeOK, AlignmentsKnown, NEW t \in FieldTypes
  PROVE  /\ t \in FieldTypeSet
         /\ FieldSize(t) \in Words
         /\ FieldAlignment(t) \in AllAlignments
         /\ FieldExact(t) \in BOOLEAN
<1>1. CASE t.kind = "STRUCT"
  <2>1. PICK n \in DOMAIN registry : t = [kind |-> "STRUCT", name |-> n]
    BY <1>1, FieldTypeCases
  <2>2. /\ n \in StructNames
        /\ registry[n].size \in Words
        /\ registry[n].exact \in BOOLEAN
        /\ registry[n].alignment \in AllAlignments
    BY DEF TypeOK, AlignmentsKnown, StructTypeInfo
  <2> QED BY <2>1, <2>2 DEF FieldTypeSet, FieldSize, FieldAlignment, FieldExact
<1>2. CASE t.kind # "STRUCT"
  <2>1. PICK k \in FieldKinds : k \in Kinds /\ t = Builtin(k)
    BY <1>2, FieldTypeCases
  <2>2. k # "STRUCT"
    BY LayoutAssumption
  <2>3. typeSize[k] \in {1, 2, 4, 8, -1, -2}
    BY <2>1, <2>2 DEF typeSize, Kinds
  <2>4. SizeT(k) \in AllAlignments
    BY <2>3, WordAssumption DEF SizeT, AllAlignments, Alignments
  <2>5. SizeT(k) \in Words
    BY <2>4, WordAssumption DEF AllAlignments, Alignments, Words
  <2> QED BY <1>2, <2>1, <2>4, <2>5
          DEF Builtin, FieldTypeSet, FieldSize, FieldAlignment, FieldExact
<1> QED BY <1>1, <1>2

(* A registry that only grows changes nothing about the types known so     *)
(* far.                                                                    *)
LEMMA FieldStable ==
  ASSUME \A n \in DOMAIN registry : n \in DOMAIN registry' /\ registry'[n] = registry[n],
         NEW t \in FieldTypes
  PROVE  /\ t \in FieldTypes'
         /\ FieldSize(t)' = FieldSize(t)
         /\ FieldAlignment(t)' = FieldAlignment(t)
         /\ FieldExact(t)' = FieldExact(t)
<1>1. CASE t.kind = "STRUCT"
  <2>1. PICK n \in DOMAIN registry : t = [kind |-> "STRUCT", name |-> n]
    BY <1>1, FieldTypeCases
  <2>2. t \in {[kind |-> "STRUCT", name |-> m] : m \in DOMAIN registry'}
    BY <2>1
  <2>3. registry'[t.name] = registry[t.name]
    BY <2>1
  <2> QED BY <1>1, <2>2, <2>3 DEF FieldTypes, FieldSize, FieldAlignment, FieldExact
<1>2. CASE t.kind # "STRUCT"
  <2>1. t \in {Builtin(k) : k \in FieldKinds}
    BY <1>2, FieldTypeCases
  <2> QED BY <1>2, <2>1 DEF FieldTypes, FieldSize, FieldAlignment, FieldExact
<1> QED BY <1>1, <1>2

(* A step never changes an entry of the registry.                          *)
LEMMA StepKeepsRegistry ==
  ASSUME [Next]_vars
  PROVE  \A n \in DOMAIN registry :
           n \in DOMAIN registry' /\ registry'[n] = registry[n]
<1>1. ASSUME NEW n \in StructNames, BeginStruct(n) PROVE registry' = registry
  BY <1>1 DEF BeginStruct
<1>2. ASSUME NEW t \in FieldTypes, LayoutField(t) PROVE registry' = registry
  BY <1>2 DEF LayoutField
<1>3. ASSUME EndStruct
      PROVE  \A n \in DOMAIN registry :
               n \in DOMAIN registry' /\ registry'[n] = registry[n]
  BY <1>3 DEF EndStruct
<1>4. CASE UNCHANGED vars BY <1>4 DEF vars
<1> QED BY <1>1, <1>2, <1>3, <1>4 DEF Next

(* structSize: a registered struct is never laid out anew.                 *)
THEOREM RegistryIsStable == Spec => RegistryStable
<1>1. [Next]_vars => [\A n \in DOMAIN registry :
                       n \in DOMAIN registry' /\ registry'[n] = registry[n]]_vars
  BY StepKeepsRegistry
<1> QED BY <1>1, PTL DEF Spec, RegistryStable

-----------------------------------------------------------------------------
(***************************************************************************)
(* Type correctness.                                                       *)
(***************************************************************************)
Typed == TypeOK /\ AlignmentsKnown

LEMMA InitTyped == Init => Typed
BY WordAssumption DEF Init, Typed, TypeOK, AlignmentsKnown, AllAlignments, Alignments,
                      Words, FieldTypes

LEMMA LayoutFieldTyped ==
  ASSUME Typed, NEW t \in FieldTypes, LayoutField(t)
  PROVE  Typed'
<1> DEFINE size      == FieldSize(t)
           alignment == FieldAlignment(t)
           start     == AlignUp(ret, alignment)
           f         == [type |-> t, offset |-> start]
<1>1. /\ t \in FieldTypeSet
      /\ size \in Words
      /\ alignment \in AllAlignments
      /\ FieldExact(t) \in BOOLEAN
  BY FieldFacts DEF Typed
<1>2. /\ fields' = Append(fields, f)
      /\ ret' = (start + size) % Word
      /\ maxAlignment' = IF alignment > maxAlignment THEN alignment ELSE maxAlignment
      /\ exact' = (exact /\ NoWrap(ret, alignment, size) /\ FieldExact(t))
      /\ UNCHANGED <<registry, declaring>>
  BY DEF LayoutField
<1>3. start \in Words
  BY <1>1, AlignUpWord DEF Typed, TypeOK
<1>4. ret' \in Words
  <2>1. start + size \in Nat BY <1>1, <1>3, WordAssumption DEF Words
  <2> QED BY <1>2, <2>1, ModWord
<1>5. /\ maxAlignment' \in AllAlignments
      /\ maxAlignment' \in Words
  BY <1>1, <1>2, WordAssumption DEF Typed, TypeOK, AlignmentsKnown, AllAlignments,
     Alignments, Words
<1>6. f \in Field
  BY <1>1, <1>3 DEF Field
<1>7. /\ fields' \in Seq(Field)
      /\ \A i \in DOMAIN fields' : fields'[i].type \in FieldTypes
  BY <1>2, <1>6 DEF Typed, TypeOK
<1>8. FieldTypes' = FieldTypes
  BY <1>2 DEF FieldTypes
<1>9. exact' \in BOOLEAN
  BY <1>1, <1>2 DEF Typed, TypeOK, NoWrap
<1>10. declaring' # NoStruct
  BY DEF LayoutField
<1> QED BY <1>2, <1>4, <1>5, <1>7, <1>8, <1>9, <1>10 DEF Typed, TypeOK, AlignmentsKnown

LEMMA EndStructTyped ==
  ASSUME Typed, EndStruct
  PROVE  Typed'
<1> DEFINE info == [fields    |-> fields,
                    size      |-> AlignUp(ret, maxAlignment),
                    alignment |-> maxAlignment,
                    exact     |-> exact /\ NoWrap(ret, maxAlignment, 0)]
<1>1. info \in StructTypeInfo
  <2>1. AlignUp(ret, maxAlignment) \in Words
    BY AlignUpWord DEF Typed, TypeOK, AlignmentsKnown
  <2> QED BY <2>1 DEF Typed, TypeOK, StructTypeInfo, NoWrap
<1>2. \A n \in DOMAIN registry : n \in DOMAIN registry' /\ registry'[n] = registry[n]
  BY StepKeepsRegistry DEF Next
<1>3. \A t \in FieldTypes : t \in FieldTypes'
  BY <1>2, FieldStable
<1>4. \A n \in DOMAIN registry' :
        \/ n \in DOMAIN registry /\ registry'[n] = registry[n]
        \/ n = declaring /\ n \in StructNames \cup {NoStruct} /\ registry'[n] = info
  BY DEF EndStruct, Typed, TypeOK
<1>5. declaring \in StructNames
  BY DEF EndStruct, Typed, TypeOK
<1>6. /\ DOMAIN registry' \subseteq StructNames
      /\ \A n \in DOMAIN registry' : registry'[n] \in StructTypeInfo
      /\ \A n \in DOMAIN registry' : registry'[n].alignment \in AllAlignments
  <2>1. info.alignment \in AllAlignments
    BY DEF Typed, AlignmentsKnown
  <2> QED BY <1>1, <1>4, <1>5, <2>1 DEF Typed, TypeOK, AlignmentsKnown
<1>7. \A n \in DOMAIN registry' : \A i \in DOMAIN registry'[n].fields :
        registry'[n].fields[i].type \in FieldTypes'
  <2>1. \A i \in DOMAIN info.fields : info.fields[i].type \in FieldTypes'
    BY <1>3 DEF Typed, TypeOK
  <2>2. \A n \in DOMAIN registry : \A i \in DOMAIN registry[n].fields :
          registry[n].fields[i].type \in FieldTypes'
    BY <1>3 DEF Typed, TypeOK
  <2> QED BY <1>4, <2>1, <2>2
<1>8. /\ declaring' = NoStruct
      /\ fields' = <<>>
      /\ ret' = 0
      /\ maxAlignment' = 1
      /\ exact' = TRUE
  BY DEF EndStruct
<1> QED BY <1>6, <1>7, <1>8, WordAssumption
        DEF Typed, TypeOK, AlignmentsKnown, AllAlignments, Alignments, Words

LEMMA StepTyped == Typed /\ [Next]_vars => Typed'
<1> SUFFICES ASSUME Typed, [Next]_vars PROVE Typed'
  OBVIOUS
<1>1. ASSUME NEW n \in StructNames, BeginStruct(n) PROVE Typed'
  <2>1. FieldTypes' = FieldTypes BY <1>1 DEF BeginStruct, FieldTypes
  <2> QED BY <1>1, <2>1 DEF BeginStruct, Typed, TypeOK, AlignmentsKnown
<1>2. ASSUME NEW t \in FieldTypes, LayoutField(t) PROVE Typed'
  BY <1>2, LayoutFieldTyped
<1>3. ASSUME EndStruct PROVE Typed'
  BY <1>3, EndStructTyped
<1>4. CASE UNCHANGED vars
  <2>1. FieldTypes' = FieldTypes BY <1>4 DEF vars, FieldTypes
  <2> QED BY <1>4, <2>1 DEF vars, Typed, TypeOK, AlignmentsKnown
<1> QED BY <1>1, <1>2, <1>3, <1>4 DEF Next

(* The registry and structSize's running values keep their types, every     *)
(* struct a member is of has been laid out before, and between declarations *)
(* nothing is left of a layout.                                             *)
THEOREM TypeCorrect == Spec => []TypeOK
<1>1. Typed => TypeOK BY DEF Typed
<1> QED BY InitTyped, StepTyped, <1>1, PTL DEF Spec

-----------------------------------------------------------------------------
(***************************************************************************)
(* The layout invariant.                                                   *)
(***************************************************************************)

(* An alignment below a scalar's is a scalar's: the sentinels are larger.  *)
LEMMA SmallAlignments ==
  ASSUME NEW a \in AllAlignments, NEW b \in Alignments, a <= b
  PROVE  a \in Alignments
BY WordAssumption DEF AllAlignments, Alignments

(* One turn of structSize's loop keeps what is known of the members.       *)
LEMMA LayoutFieldLoop ==
  ASSUME IInv, NEW t \in FieldTypes, LayoutField(t)
  PROVE  LoopInv'
<1> DEFINE size      == FieldSize(t)
           alignment == FieldAlignment(t)
           start     == AlignUp(ret, alignment)
           f         == [type |-> t, offset |-> start]
<1> SUFFICES ASSUME exact', maxAlignment' \in Alignments
             PROVE  (/\ Separate(fields, ret)
                     /\ Placed(fields, maxAlignment)
                     /\ Snug(fields)
                     /\ PreviousEnd(fields, Len(fields) + 1) = ret)'
  BY DEF LoopInv
<1>1. /\ fields' = Append(fields, f)
      /\ ret' = (start + size) % Word
      /\ maxAlignment' = IF alignment > maxAlignment THEN alignment ELSE maxAlignment
      /\ exact /\ NoWrap(ret, alignment, size) /\ FieldExact(t)
      /\ registry' = registry
  BY DEF LayoutField
<1>2. /\ size \in Words
      /\ alignment \in AllAlignments
      /\ maxAlignment \in AllAlignments
      /\ ret \in Words
      /\ fields \in Seq(Field)
  BY FieldFacts DEF IInv, TypeOK, AlignmentsKnown
<1>3. /\ alignment <= maxAlignment'
      /\ maxAlignment <= maxAlignment'
  BY <1>1, <1>2, WordAssumption DEF AllAlignments, Alignments
<1>4. alignment \in Alignments /\ maxAlignment \in Alignments
  BY <1>2, <1>3, SmallAlignments
<1>5. /\ start \in Words
      /\ ret <= start
      /\ start < ret + alignment
      /\ start % alignment = 0
      /\ start + size \in Words
  BY <1>1, <1>2, <1>4, AlignUpBounds
<1>6. ret' = start + size
  <2>1. start + size \in Nat BY <1>5 DEF Words
  <2> QED BY <1>1, <1>5, <2>1, ModWord
<1>7. /\ Separate(fields, ret)
      /\ Placed(fields, maxAlignment)
      /\ Snug(fields)
      /\ PreviousEnd(fields, Len(fields) + 1) = ret
  BY <1>1, <1>4 DEF IInv, LoopInv
<1>8. /\ DOMAIN fields' = DOMAIN fields \cup {Len(fields) + 1}
      /\ Len(fields') = Len(fields) + 1
      /\ Len(fields) \in Nat
      /\ DOMAIN fields = 1..Len(fields)
      /\ \A i \in DOMAIN fields : fields'[i] = fields[i]
      /\ fields'[Len(fields) + 1] = f
  BY <1>1, <1>2
<1>9. /\ \A i \in DOMAIN fields : fields[i].offset \in Words /\ End(fields[i]) \in Nat
      /\ \A i \in DOMAIN fields : FieldAlignment(fields[i].type) \in Alignments
  <2>1. ASSUME NEW i \in DOMAIN fields
        PROVE  fields[i].offset \in Words /\ FieldSize(fields[i].type) \in Words
    <3>1. fields[i] \in Field BY <1>2
    <3>2. fields[i].type \in FieldTypes BY DEF IInv, TypeOK
    <3>3. FieldSize(fields[i].type) \in Words BY <3>2, FieldFacts DEF IInv
    <3> QED BY <3>1, <3>3 DEF Field
  <2>2. ASSUME NEW i \in DOMAIN fields PROVE End(fields[i]) \in Nat
    BY <2>1 DEF End, Words
  <2> QED BY <1>7, <2>1, <2>2 DEF Placed
<1>10. End(f) = start + size /\ f.offset = start /\ f.type = t
  BY DEF End
<1> HIDE DEF f, start, size, alignment
<1>11. Separate(fields', ret')
  <2>1. \A i \in DOMAIN fields : End(fields[i]) <= ret /\ ret <= start
    BY <1>5, <1>7 DEF Separate
  <2>2. start <= ret' /\ start \in Nat /\ ret \in Nat /\ ret' \in Nat
    BY <1>2, <1>5, <1>6 DEF Words
  <2>3. \A i \in DOMAIN fields : End(fields[i]) <= start /\ End(fields[i]) <= ret'
    BY <2>1, <2>2, <1>9
  <2>4. \A i \in DOMAIN fields' : End(fields'[i]) <= ret'
    BY <2>3, <2>2, <1>6, <1>8, <1>10
  <2>5. ASSUME NEW i \in DOMAIN fields', NEW j \in DOMAIN fields', i < j
        PROVE  End(fields'[i]) <= fields'[j].offset
    <3>1. i \in DOMAIN fields BY <1>8, <2>5
    <3>2. CASE j \in DOMAIN fields BY <1>7, <1>8, <2>5, <3>1, <3>2 DEF Separate
    <3>3. CASE j = Len(fields) + 1 BY <1>8, <1>10, <2>3, <3>1, <3>3
    <3> QED BY <1>8, <3>2, <3>3
  <2> QED BY <2>4, <2>5 DEF Separate
<1>12. Placed(fields', maxAlignment')
  <2>1. ASSUME NEW i \in DOMAIN fields
        PROVE  FieldAlignment(fields[i].type) <= maxAlignment'
    BY <1>3, <1>4, <1>7, <1>9 DEF Placed, Alignments
  <2>2. FieldAlignment(f.type) = alignment
    BY <1>10 DEF alignment
  <2> QED BY <1>1, <1>3, <1>4, <1>5, <1>7, <1>8, <1>10, <2>1, <2>2 DEF Placed
<1>13. Snug(fields')
  <2>1. ASSUME NEW i \in DOMAIN fields PROVE PreviousEnd(fields', i) = PreviousEnd(fields, i)
    BY <1>8 DEF PreviousEnd
  <2>2. PreviousEnd(fields', Len(fields) + 1) = ret
    <3>1. CASE Len(fields) = 0 BY <1>7, <3>1 DEF PreviousEnd
    <3>2. CASE Len(fields) # 0
      <4>1. Len(fields) \in DOMAIN fields BY <1>8, <3>2
      <4>2. Len(fields) + 1 # 1 /\ (Len(fields) + 1) - 1 = Len(fields)
        BY <1>8, <3>2
      <4>3. PreviousEnd(fields', Len(fields) + 1) = End(fields'[Len(fields)])
        BY <4>2 DEF PreviousEnd
      <4>4. PreviousEnd(fields, Len(fields) + 1) = End(fields[Len(fields)])
        BY <4>2 DEF PreviousEnd
      <4> QED BY <1>7, <1>8, <4>1, <4>3, <4>4
    <3> QED BY <3>1, <3>2
  <2>3. start - ret < alignment
    BY <1>2, <1>4, <1>5 DEF Words, Alignments
  <2>4. FieldAlignment(f.type) = alignment
    BY <1>10 DEF alignment
  <2> QED BY <1>7, <1>8, <1>10, <2>1, <2>2, <2>3, <2>4 DEF Snug
<1>14. PreviousEnd(fields', Len(fields') + 1) = ret'
  BY <1>6, <1>8, <1>10 DEF PreviousEnd
<1>15. /\ Separate(fields, ret)' <=> Separate(fields', ret')
       /\ Placed(fields, maxAlignment)' <=> Placed(fields', maxAlignment')
       /\ Snug(fields)' <=> Snug(fields')
       /\ PreviousEnd(fields, Len(fields) + 1)' = PreviousEnd(fields', Len(fields') + 1)
  BY <1>1 DEF Separate, Placed, Snug, PreviousEnd, End, FieldSize, FieldAlignment,
              FieldExact
<1> QED BY <1>11, <1>12, <1>13, <1>14, <1>15

(* What is known of members stays true while the registry only grows.      *)
LEMMA MembersStable ==
  ASSUME \A n \in DOMAIN registry : n \in DOMAIN registry' /\ registry'[n] = registry[n],
         NEW fs \in Seq(Field), \A i \in DOMAIN fs : fs[i].type \in FieldTypes,
         NEW r, NEW m
  PROVE  /\ Separate(fs, r)' <=> Separate(fs, r)
         /\ Placed(fs, m)' <=> Placed(fs, m)
         /\ Snug(fs)' <=> Snug(fs)
         /\ PreviousEnd(fs, Len(fs) + 1)' = PreviousEnd(fs, Len(fs) + 1)
<1>1. ASSUME NEW i \in DOMAIN fs
      PROVE  /\ FieldSize(fs[i].type)' = FieldSize(fs[i].type)
             /\ FieldAlignment(fs[i].type)' = FieldAlignment(fs[i].type)
             /\ FieldExact(fs[i].type)' = FieldExact(fs[i].type)
  BY FieldStable
<1>2. \A i \in DOMAIN fs : End(fs[i])' = End(fs[i])
  BY <1>1 DEF End
<1>3. \A i \in 1..Len(fs)+1 : PreviousEnd(fs, i)' = PreviousEnd(fs, i)
  <2>1. \A i \in 1..Len(fs)+1 : i # 1 => i - 1 \in DOMAIN fs
    OBVIOUS
  <2> QED BY <1>2, <2>1 DEF PreviousEnd
<1>4. Len(fs) + 1 \in 1..Len(fs)+1 /\ \A i \in DOMAIN fs : i \in 1..Len(fs)+1
  OBVIOUS
<1>5. Separate(fs, r)' <=> Separate(fs, r)
  BY <1>2 DEF Separate
<1>6. Placed(fs, m)' <=> Placed(fs, m)
  BY <1>1 DEF Placed
<1>7. Snug(fs)' <=> Snug(fs)
  BY <1>1, <1>3, <1>4 DEF Snug
<1> QED BY <1>3, <1>4, <1>5, <1>6, <1>7

(* What RegisteredInv says of one struct.                                  *)
WellLaid(info) ==
  /\ Separate(info.fields, info.size)
  /\ Placed(info.fields, info.alignment)
  /\ Snug(info.fields)
  /\ info.size % info.alignment = 0
  /\ info.size - PreviousEnd(info.fields, Len(info.fields) + 1) < info.alignment

(* The tail padding turns the loop's invariant into the struct's.          *)
LEMMA EndStructRegisters ==
  ASSUME IInv, EndStruct
  PROVE  RegisteredInv'
<1> DEFINE info == [fields    |-> fields,
                    size      |-> AlignUp(ret, maxAlignment),
                    alignment |-> maxAlignment,
                    exact     |-> exact /\ NoWrap(ret, maxAlignment, 0)]
<1>1. \A n \in DOMAIN registry : n \in DOMAIN registry' /\ registry'[n] = registry[n]
  BY StepKeepsRegistry DEF Next
<1>2. \A n \in DOMAIN registry' :
        \/ n \in DOMAIN registry /\ registry'[n] = registry[n]
        \/ registry'[n] = info
  BY DEF EndStruct
<1>3. ASSUME NEW x \in StructTypeInfo, \A i \in DOMAIN x.fields : x.fields[i].type \in FieldTypes,
             WellLaid(x)
      PROVE  WellLaid(x)'
  <2>1. x.fields \in Seq(Field) BY DEF StructTypeInfo
  <2>2. /\ Separate(x.fields, x.size)' <=> Separate(x.fields, x.size)
        /\ Placed(x.fields, x.alignment)' <=> Placed(x.fields, x.alignment)
        /\ Snug(x.fields)' <=> Snug(x.fields)
        /\ PreviousEnd(x.fields, Len(x.fields) + 1)' = PreviousEnd(x.fields, Len(x.fields) + 1)
    BY <1>1, <1>3, <2>1, MembersStable
  <2> QED BY <1>3, <2>2 DEF WellLaid
<1>4. info \in StructTypeInfo
  <2>1. AlignUp(ret, maxAlignment) \in Words
    BY AlignUpWord DEF IInv, TypeOK, AlignmentsKnown
  <2> QED BY <2>1 DEF IInv, TypeOK, StructTypeInfo, NoWrap
<1>5. ASSUME NEW n \in DOMAIN registry, NEW x \in StructTypeInfo, x = registry[n], Ordinary(x)
      PROVE  WellLaid(x)'
  <2>1. \A i \in DOMAIN x.fields : x.fields[i].type \in FieldTypes
    BY <1>5 DEF IInv, TypeOK
  <2>2. WellLaid(x)
    BY <1>5 DEF IInv, RegisteredInv, WellLaid
  <2> QED BY <1>3, <2>1, <2>2
<1>6. ASSUME NEW x \in StructTypeInfo, x = info, Ordinary(x)
      PROVE  WellLaid(x)'
  <2>1. /\ x.fields = fields
        /\ x.size = AlignUp(ret, maxAlignment)
        /\ x.alignment = maxAlignment
        /\ x.exact = (exact /\ NoWrap(ret, maxAlignment, 0))
    BY <1>6
  <2>2. /\ fields \in Seq(Field)
        /\ \A i \in DOMAIN fields : fields[i].type \in FieldTypes
        /\ ret \in Words
        /\ maxAlignment \in Alignments
        /\ exact /\ NoWrap(ret, maxAlignment, 0)
    BY <1>6, <2>1 DEF IInv, TypeOK, Ordinary
  <2>3. 0 \in Words BY WordAssumption DEF Words
  <2>4. /\ ret <= x.size
        /\ x.size < ret + maxAlignment
        /\ x.size % maxAlignment = 0
        /\ x.size \in Words
    BY <2>1, <2>2, <2>3, AlignUpBounds
  <2>5. /\ Separate(fields, ret)
        /\ Placed(fields, maxAlignment)
        /\ Snug(fields)
        /\ PreviousEnd(fields, Len(fields) + 1) = ret
    BY <2>2 DEF IInv, LoopInv
  <2>6. Separate(fields, x.size)
    <3>1. ASSUME NEW i \in DOMAIN fields PROVE End(fields[i]) <= x.size
      <4>1. fields[i] \in Field BY <2>2
      <4>2. FieldSize(fields[i].type) \in Words BY <2>2, FieldFacts DEF IInv
      <4>3. End(fields[i]) \in Nat BY <4>1, <4>2 DEF End, Field, Words
      <4>4. End(fields[i]) <= ret BY <2>5 DEF Separate
      <4> QED BY <2>2, <2>4, <4>3, <4>4 DEF Words
    <3> QED BY <2>5, <3>1 DEF Separate
  <2>7. x.size - ret < maxAlignment
    BY <2>2, <2>4 DEF Words, Alignments
  <2>8. WellLaid(x)
    BY <2>1, <2>4, <2>5, <2>6, <2>7 DEF WellLaid
  <2> QED BY <1>3, <2>1, <2>2, <2>8
<1>7. ASSUME NEW n \in DOMAIN registry', NEW x \in StructTypeInfo, x = registry'[n], Ordinary(x)
      PROVE  WellLaid(x)'
  BY <1>1, <1>2, <1>5, <1>6, <1>7
<1>8. \A n \in DOMAIN registry' : registry'[n] \in StructTypeInfo
  <2>1. TypeOK' BY StepTyped DEF IInv, Typed, Next
  <2> QED BY <2>1 DEF TypeOK
<1> QED BY <1>7, <1>8 DEF RegisteredInv, WellLaid, Ordinary

-----------------------------------------------------------------------------
(***************************************************************************)
(* The invariant and the theorems.                                         *)
(***************************************************************************)
LEMMA InitInv == Init => IInv
<1> SUFFICES ASSUME Init PROVE IInv
  OBVIOUS
<1>1. Typed BY InitTyped
<1>2. RegisteredInv BY DEF Init, RegisteredInv
<1>3. LoopInv
  <2>1. fields = <<>> /\ DOMAIN fields = {} /\ Len(fields) = 0 /\ ret = 0
    BY DEF Init
  <2> QED BY <2>1 DEF LoopInv, Separate, Placed, Snug, PreviousEnd
<1> QED BY <1>1, <1>2, <1>3 DEF IInv, Typed

LEMMA StepInv == IInv /\ [Next]_vars => IInv'
<1> SUFFICES ASSUME IInv, [Next]_vars PROVE IInv'
  OBVIOUS
<1>1. Typed' BY StepTyped DEF IInv, Typed
<1>2. ASSUME UNCHANGED registry PROVE RegisteredInv'
  <2>1. ASSUME NEW fs, NEW r, NEW m
        PROVE  /\ Separate(fs, r)' <=> Separate(fs, r)
               /\ Placed(fs, m)' <=> Placed(fs, m)
               /\ Snug(fs)' <=> Snug(fs)
               /\ PreviousEnd(fs, Len(fs) + 1)' = PreviousEnd(fs, Len(fs) + 1)
    BY <1>2 DEF Separate, Placed, Snug, PreviousEnd, End, FieldSize, FieldAlignment,
                FieldExact
  <2>2. RegisteredInv
    BY DEF IInv
  <2> QED BY <1>2, <2>1, <2>2 DEF RegisteredInv, Ordinary
<1>3. ASSUME UNCHANGED <<registry, fields, ret, maxAlignment, exact>> PROVE LoopInv'
  BY <1>3 DEF IInv, LoopInv, Separate, Placed, Snug, PreviousEnd, End,
              FieldSize, FieldAlignment, FieldExact
<1>4. ASSUME NEW n \in StructNames, BeginStruct(n) PROVE LoopInv' /\ RegisteredInv'
  BY <1>2, <1>3, <1>4 DEF BeginStruct
<1>5. ASSUME NEW t \in FieldTypes, LayoutField(t) PROVE LoopInv' /\ RegisteredInv'
  BY <1>2, <1>5, LayoutFieldLoop DEF LayoutField
<1>6. ASSUME EndStruct PROVE LoopInv' /\ RegisteredInv'
  <2>1. fields' = <<>> /\ DOMAIN fields' = {} /\ Len(fields') = 0 /\ ret' = 0
    BY <1>6 DEF EndStruct
  <2>2. LoopInv'
    BY <2>1 DEF LoopInv, Separate, Placed, Snug, PreviousEnd
  <2> QED BY <1>6, <2>2, EndStructRegisters
<1>7. ASSUME UNCHANGED vars PROVE LoopInv' /\ RegisteredInv'
  <2>1. UNCHANGED registry /\ UNCHANGED <<registry, fields, ret, maxAlignment, exact>>
    BY <1>7 DEF vars
  <2> QED BY <1>2, <1>3, <2>1
<1>8. LoopInv' /\ RegisteredInv'
  BY <1>4, <1>5, <1>6, <1>7 DEF Next
<1> QED BY <1>1, <1>8 DEF IInv, Typed

THEOREM InductiveInvariant == Spec => []IInv
BY InitInv, StepInv, PTL DEF Spec

(* structSize: no two members of an ordinary struct share a byte, and all  *)
(* of them lie inside it.                                                  *)
THEOREM FieldsDisjoint == Spec => []StructFieldsDisjoint
<1>1. IInv => StructFieldsDisjoint
  BY DEF IInv, RegisteredInv, StructFieldsDisjoint, Disjoint, Separate
<1> QED BY <1>1, InductiveInvariant, PTL

(* structSize: every member of an ordinary struct, also one of a nested    *)
(* struct, is naturally aligned, and so is the struct's size.              *)
THEOREM FieldsAligned == Spec => []NestedFieldsAligned
<1>1. IInv => NestedFieldsAligned
  <2> SUFFICES ASSUME IInv, NEW n \in DOMAIN registry, Ordinary(registry[n])
               PROVE  Aligned(registry[n])
    BY DEF NestedFieldsAligned
  <2> DEFINE info == registry[n]
  <2>1. Placed(info.fields, info.alignment) /\ info.size % info.alignment = 0
    BY DEF IInv, RegisteredInv
  <2>2. ASSUME NEW i \in DOMAIN info.fields, info.fields[i].type.kind = "STRUCT",
               NEW j \in DOMAIN registry[info.fields[i].type.name].fields
        PROVE  (info.fields[i].offset + registry[info.fields[i].type.name].fields[j].offset)
                 % FieldAlignment(registry[info.fields[i].type.name].fields[j].type) = 0
    <3> DEFINE f     == info.fields[i]
               m     == f.type.name
               g     == registry[m].fields[j]
    <3>1. m \in DOMAIN registry
      <4>1. f.type \in FieldTypes BY DEF IInv, TypeOK
      <4> QED BY <2>2, <4>1, FieldTypeCases
    <3>2. /\ FieldAlignment(f.type) = registry[m].alignment
          /\ registry[m].alignment \in Alignments
          /\ f.offset % registry[m].alignment = 0
          /\ registry[m].exact
      BY <2>1, <2>2 DEF Placed, FieldAlignment, FieldExact
    <3>3. Placed(registry[m].fields, registry[m].alignment)
      BY <3>1, <3>2 DEF IInv, RegisteredInv, Ordinary
    <3>4. /\ FieldAlignment(g.type) \in Alignments
          /\ FieldAlignment(g.type) <= registry[m].alignment
          /\ g.offset % FieldAlignment(g.type) = 0
      BY <3>3 DEF Placed
    <3>5. f.offset \in Nat /\ g.offset \in Nat
      <4>1. info \in StructTypeInfo /\ registry[m] \in StructTypeInfo
        BY <3>1 DEF IInv, TypeOK
      <4>2. f \in Field /\ g \in Field
        BY <4>1 DEF StructTypeInfo
      <4> QED BY <4>2 DEF Field, Words
    <3> QED BY <3>2, <3>4, <3>5, AlignmentsNest
  <2> QED BY <2>1, <2>2 DEF Aligned, Placed
<1> QED BY <1>1, InductiveInvariant, PTL

(* structSize: the layout of an ordinary struct wastes nothing.            *)
THEOREM LayoutCompact == Spec => []StructLayoutCompact
<1>1. IInv => StructLayoutCompact
  BY DEF IInv, RegisteredInv, StructLayoutCompact, Compact, Snug
<1> QED BY <1>1, InductiveInvariant, PTL

=============================================================================
