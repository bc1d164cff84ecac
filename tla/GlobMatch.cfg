SPECIFICATION Spec
CONSTANTS
  PatternBytes <- AllOperators
  NameBytes <- Names
  MaxPattern = 5
  MaxName = 3
CHECK_DEADLOCK FALSE
INVARIANT MatchesMeaning
PROPERTIES Terminates Advances
