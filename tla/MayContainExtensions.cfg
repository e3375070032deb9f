SPECIFICATION Spec
CONSTANTS
  A = A
  B = B
  C = C
  Types = {A, B, C}
  Schemas <- AllSchemas
  MaxHeight = 2
  NoType = NoType
INVARIANTS
  TypeOK
  YesIsRight
  NoIsRightUntilFirstYes
  NoIsRightIfAcyclic
  NoTypeTwice
