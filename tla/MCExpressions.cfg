CONSTANTS
  Word = 64
  Variables <- MCVariables
  Fields <- MCFields
  Functions <- MCFunctions
  EnumBacking <- MCEnumBacking
  Arithmetic <- MCArithmetic
  Compares <- MCCompares
  Unaries <- MCUnaries
  MaxNodes = 4
SPECIFICATION Spec
INVARIANTS
  TypeOK
  TempsWellDefined
  EffectsInOrder
  ValuesHaveCheckedType
