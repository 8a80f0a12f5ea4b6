CONSTANTS
  Operators <- MCOperators
  MaxTokens = 7
SPECIFICATION Spec
INVARIANTS
  TypeOK
  TreeIsMeaning
  RefusedTokensCannotFollow
