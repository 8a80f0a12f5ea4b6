SPECIFICATION Spec
CONSTANTS
  a = a
  b = b
  x = x
  m = m
  Word = 64
  Names <- MCNames
  Members = {m}
  NamesFor <- MCNamesFor
  WordsFor <- MCWordsFor
  Sentences <- MCSentences
  Initials <- MCInitials
  Numbers <- MCNumbers
  MaxFile = 3
  MaxParts = 5
INVARIANTS
  TypeOK
  TypesAsClaimed
  StructsComplete
  EnumValuesFit
PROPERTIES
  KeepsPromise
