SPECIFICATION DisciplinedFairSpec
CONSTANTS
  Program <- OneAddress
  Words <- OneWord
  PswWrites <- StatusWords
  Vectors = {16}
  FaultCodes <- ZeroDivision
PROPERTIES
  ImplementsStack
  IdleEnds
