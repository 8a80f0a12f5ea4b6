CONSTANT
  MaxLength = 5
SPECIFICATION Spec
INVARIANTS
  TypeOK
  EachCharacterOnce
  OnlySpacesDropped
  NumbersStartWithDigits
  LinesRight
PROPERTIES
  Terminates
CHECK_DEADLOCK FALSE
