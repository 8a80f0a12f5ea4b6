CONSTANT
  MaxNodes = 6
SPECIFICATION Spec
INVARIANTS
  TypeOK
  CurrentBlockNewest
  LabelsUnique
  JumpsResolve
  NoFallThrough
  ReachableIffNoReturn
  ValuesReturned
PROPERTY
  StructuredProgram
