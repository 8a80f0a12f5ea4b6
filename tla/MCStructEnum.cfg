CONSTANTS
  Word = 64
  MaxFields = 3
  StructNames <- MCStructNames
  FieldKinds <- MCFieldKinds
SPECIFICATION Spec
INVARIANTS
  ScalarMembersApart
