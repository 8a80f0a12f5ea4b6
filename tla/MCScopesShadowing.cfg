CONSTANTS
  left = left
  right = right
  Word = 64
  MaxNodes = 4
  MaxErrors = 1
  Names <- MCNames
  FuncNames <- MCFuncNames
  Types <- MCTypes
  Literals <- MCLiterals
  StructInfo <- MCStructInfo
  EnumBacking <- MCEnumBacking
SYMMETRY NameSymmetry
SPECIFICATION Spec
INVARIANTS
  ReadsHaveCheckedType
