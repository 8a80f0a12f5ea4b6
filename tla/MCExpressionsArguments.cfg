CONSTANTS
  Word = 64
  Variables <- MCNumbers
  Fields <- MCFields
  Functions <- MCFunctions
  EnumBacking <- MCEnumBacking
  Arithmetic <- MCArithmetic
  Compares <- MCCompares
  Unaries <- MCUnaries
  MaxNodes = 3
SPECIFICATION Spec
INVARIANTS
  AccessesReadTheirVariable
