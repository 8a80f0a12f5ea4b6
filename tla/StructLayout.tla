---------------------------- MODULE StructLayout ----------------------------
(***************************************************************************)
(* The struct registry of the semantic analyser and the layout algorithm   *)
(* that fills it, Semantic::structSize.                                    *)
(*                                                                         *)
(* The analyser meets the struct declarations in source order.  For each   *)
(* one it copies the fields into a StructTypeInfo, runs structSize over    *)
(* them and puts the result into globalStructRegistery, where later        *)
(* structs and variables find it.  The field list of a declaration is      *)
(* chosen here one field at a time, as the loop of structSize reaches it.  *)
(***************************************************************************)
EXTENDS NebulaTypes

CONSTANTS
  StructNames,  (* Names a struct can be declared under.                   *)
  FieldKinds,   (* Kinds, other than STRUCT, that a field can have.        *)
  MaxFields     (* Bound: fields of one struct.                            *)

ASSUME LayoutAssumption ==
  /\ FieldKinds \subseteq (Kinds \ {"STRUCT"})
  /\ MaxFields \in Nat

NoStruct == "no struct"

VARIABLES
  registry,      (* globalStructRegistery: name -> StructTypeInfo          *)
  declaring,     (* name of the struct structSize is working on            *)
  fields,        (* info.fields, with the offsets assigned so far          *)
  ret,           (* structSize's running size                              *)
  maxAlignment,  (* structSize's running alignment                         *)
  exact          (* history: no sum wrapped around in this structSize call *)
                 (* or in the one that laid out a nested struct            *)

vars == <<registry, declaring, fields, ret, maxAlignment, exact>>

-----------------------------------------------------------------------------
(***************************************************************************)
(* Field types are builtin types, an enum (only its kind is looked at) and *)
(* the structs already in the registry: the parser knows no other name.    *)
(***************************************************************************)
FieldTypes == {Builtin(k) : k \in FieldKinds}
                \cup {[kind |-> "STRUCT", name |-> n] : n \in DOMAIN registry}

FieldSize(t) ==
  IF t.kind = "STRUCT" THEN registry[t.name].size ELSE SizeT(t.kind)

FieldAlignment(t) ==
  IF t.kind = "STRUCT" THEN registry[t.name].alignment ELSE SizeT(t.kind)

(* History: the nested struct's own layout was computed without wrapping.  *)
FieldExact(t) == t.kind = "STRUCT" => registry[t.name].exact

-----------------------------------------------------------------------------
Init ==
  /\ registry = <<>>
  /\ declaring = NoStruct
  /\ fields = <<>>
  /\ ret = 0
  /\ maxAlignment = 1
  /\ exact = TRUE

(* The visitor of StructDeclNode starts: an empty info, structSize called. *)
BeginStruct(n) ==
  /\ declaring = NoStruct
  /\ declaring' = n
  /\ UNCHANGED <<registry, fields, ret, maxAlignment, exact>>

(* Mutant: a field is aligned as strictly as the strictest one before it.  *)
LayoutFieldMaxAligned(t) ==
  LET size      == FieldSize(t)
      alignment == IF FieldAlignment(t) > maxAlignment THEN FieldAlignment(t)
                   ELSE maxAlignment
      start     == AlignUp(ret, alignment)
  IN  /\ declaring # NoStruct
      /\ Len(fields) < MaxFields
      /\ fields' = Append(fields, [type |-> t, offset |-> start])
      /\ ret' = (start + size) % Word
      /\ maxAlignment' = alignment
      /\ exact' = (exact /\ NoWrap(ret, alignment, size) /\ FieldExact(t))
      /\ UNCHANGED <<registry, declaring>>

(* Mutant: the size is advanced by the alignment, not by the field's size. *)
LayoutFieldOverlap(t) ==
  LET alignment == FieldAlignment(t)
      start     == AlignUp(ret, alignment)
  IN  /\ declaring # NoStruct
      /\ Len(fields) < MaxFields
      /\ fields' = Append(fields, [type |-> t, offset |-> start])
      /\ ret' = (start + alignment) % Word
      /\ maxAlignment' = IF alignment > maxAlignment THEN alignment ELSE maxAlignment
      /\ exact' = (exact /\ NoWrap(ret, alignment, FieldSize(t)) /\ FieldExact(t))
      /\ UNCHANGED <<registry, declaring>>

(* One turn of structSize's loop, for a next field of type t.              *)
LayoutField(t) ==
  LET size      == FieldSize(t)
      alignment == FieldAlignment(t)
      start     == AlignUp(ret, alignment)
  IN  /\ declaring # NoStruct
      /\ Len(fields) < MaxFields
      /\ fields' = Append(fields, [type |-> t, offset |-> start])
      /\ ret' = (start + size) % Word
      /\ maxAlignment' = IF alignment > maxAlignment THEN alignment ELSE maxAlignment
      /\ exact' = (exact /\ NoWrap(ret, alignment, size) /\ FieldExact(t))
      /\ UNCHANGED <<registry, declaring>>

(* Mutant: operator[]= where the code has emplace.                         *)
EndStructOverwrites ==
  LET info == [fields    |-> fields,
               size      |-> AlignUp(ret, maxAlignment),
               alignment |-> maxAlignment,
               exact     |-> exact /\ NoWrap(ret, maxAlignment, 0)]
  IN  /\ declaring # NoStruct
      /\ registry' = [n \in DOMAIN registry \cup {declaring} |->
                         IF n = declaring THEN info ELSE registry[n]]
      /\ declaring' = NoStruct
      /\ fields' = <<>>
      /\ ret' = 0
      /\ maxAlignment' = 1
      /\ exact' = TRUE

(* Mutant: the size is not rounded up at the end.                          *)
EndStructNoTail ==
  LET info == [fields    |-> fields,
               size      |-> ret,
               alignment |-> maxAlignment,
               exact     |-> exact /\ NoWrap(ret, maxAlignment, 0)]
  IN  /\ declaring # NoStruct
      /\ registry' = IF declaring \in DOMAIN registry THEN registry
                     ELSE [n \in DOMAIN registry \cup {declaring} |->
                             IF n = declaring THEN info ELSE registry[n]]
      /\ declaring' = NoStruct
      /\ fields' = <<>>
      /\ ret' = 0
      /\ maxAlignment' = 1
      /\ exact' = TRUE

(* Mutant: maxAlignment is a member that is not reset, as offset is one.    *)
EndStructKeepsAlignment ==
  LET info == [fields    |-> fields,
               size      |-> AlignUp(ret, maxAlignment),
               alignment |-> maxAlignment,
               exact     |-> exact /\ NoWrap(ret, maxAlignment, 0)]
  IN  /\ declaring # NoStruct
      /\ registry' = IF declaring \in DOMAIN registry THEN registry
                     ELSE [n \in DOMAIN registry \cup {declaring} |->
                             IF n = declaring THEN info ELSE registry[n]]
      /\ declaring' = NoStruct
      /\ fields' = <<>>
      /\ ret' = 0
      /\ exact' = TRUE
      /\ UNCHANGED maxAlignment

(* The end of structSize and the emplace, which keeps an existing entry.   *)
EndStruct ==
  LET info == [fields    |-> fields,
               size      |-> AlignUp(ret, maxAlignment),
               alignment |-> maxAlignment,
               exact     |-> exact /\ NoWrap(ret, maxAlignment, 0)]
  IN  /\ declaring # NoStruct
      /\ registry' = IF declaring \in DOMAIN registry THEN registry
                     ELSE [n \in DOMAIN registry \cup {declaring} |->
                             IF n = declaring THEN info ELSE registry[n]]
      /\ declaring' = NoStruct
      /\ fields' = <<>>
      /\ ret' = 0
      /\ maxAlignment' = 1
      /\ exact' = TRUE

Next ==
  \/ \E n \in StructNames : BeginStruct(n)
  \/ \E t \in FieldTypes : LayoutField(t)
  \/ EndStruct

Spec == Init /\ [][Next]_vars

-----------------------------------------------------------------------------
(***************************************************************************)
(* Properties.                                                             *)
(***************************************************************************)
FieldTypeSet == [kind : FieldKinds, name : {""}]
                  \cup [kind : {"STRUCT"}, name : StructNames]

Field == [type : FieldTypeSet, offset : Words]

StructTypeInfo ==
  [fields : Seq(Field), size : Words, alignment : Words, exact : BOOLEAN]

(* Types, and the closure that lets structSize read the registry: a struct *)
(* type in any field names a registered struct.  Between declarations the  *)
(* running values are those the next structSize call starts from: nothing  *)
(* of one struct's layout is left for the next.                            *)
TypeOK ==
  /\ DOMAIN registry \subseteq StructNames
  /\ \A n \in DOMAIN registry : registry[n] \in StructTypeInfo
  /\ declaring \in StructNames \cup {NoStruct}
  /\ fields \in Seq(Field)
  /\ ret \in Words
  /\ maxAlignment \in Words
  /\ exact \in BOOLEAN
  /\ \A i \in DOMAIN fields : fields[i].type \in FieldTypes
  /\ \A n \in DOMAIN registry : \A i \in DOMAIN registry[n].fields :
       registry[n].fields[i].type \in FieldTypes
  /\ declaring = NoStruct => fields = <<>> /\ ret = 0 /\ maxAlignment = 1 /\ exact

(* The layouts that are what a C programmer means by one: no sum wrapped   *)
(* around, and no member had a sentinel for its size.                      *)
Ordinary(info) == info.exact /\ info.alignment \in Alignments

End(f) == f.offset + FieldSize(f.type)

Disjoint(info) ==
  /\ \A i, j \in DOMAIN info.fields :
       i < j => End(info.fields[i]) <= info.fields[j].offset
  /\ \A i \in DOMAIN info.fields : End(info.fields[i]) <= info.size

(* In every registered struct of ordinary members, no two members share a  *)
(* byte and every member lies inside the struct (structSize).              *)
StructFieldsDisjoint ==
  \A n \in DOMAIN registry : Ordinary(registry[n]) => Disjoint(registry[n])

(* Every member of an ordinary struct is naturally aligned, also a member  *)
(* of a struct nested in it, at the sum of the two offsets an access of a  *)
(* nested member adds up; and an array of the struct keeps it so, for the  *)
(* size is a multiple of the alignment.                                    *)
Aligned(info) ==
  /\ info.size % info.alignment = 0
  /\ \A i \in DOMAIN info.fields :
       LET f == info.fields[i]
       IN  /\ f.offset % FieldAlignment(f.type) = 0
           /\ f.type.kind = "STRUCT" =>
                \A j \in DOMAIN registry[f.type.name].fields :
                  LET g == registry[f.type.name].fields[j]
                  IN  (f.offset + g.offset) % FieldAlignment(g.type) = 0

NestedFieldsAligned ==
  \A n \in DOMAIN registry : Ordinary(registry[n]) => Aligned(registry[n])

(* The layout wastes nothing: less padding in front of a member than its   *)
(* alignment, less after the last one than the struct's (structSize).      *)
PreviousEnd(fs, i) == IF i = 1 THEN 0 ELSE End(fs[i - 1])

Compact(info) ==
  /\ \A i \in DOMAIN info.fields :
       info.fields[i].offset - PreviousEnd(info.fields, i)
         < FieldAlignment(info.fields[i].type)
  /\ info.size - PreviousEnd(info.fields, Len(info.fields) + 1) < info.alignment

StructLayoutCompact ==
  \A n \in DOMAIN registry : Ordinary(registry[n]) => Compact(registry[n])

(* A struct, once registered, is never laid out anew: the size and the     *)
(* offsets other structs and frames were computed from stay valid          *)
(* (emplace in the visitor of StructDeclNode).                             *)
RegistryStable ==
  [][\A n \in DOMAIN registry :
       n \in DOMAIN registry' /\ registry'[n] = registry[n]]_vars

(* What the README's "User-defined structures" and its Process example,    *)
(* with a member of enum type, say: two scalar members of a struct never   *)
(* start at the same byte.  The code does not satisfy it: an enum's entry  *)
(* in typeSize is a sentinel, and masking with it clears the offset.       *)
ScalarMembersApart ==
  \A n \in DOMAIN registry : \A i, j \in DOMAIN registry[n].fields :
    LET f == registry[n].fields[i]
        g == registry[n].fields[j]
    IN  i # j /\ "STRUCT" \notin {f.type.kind, g.type.kind} => f.offset # g.offset

=============================================================================
