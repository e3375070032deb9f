SPECIFICATION CheckSpec
CONSTANTS
  Outer = Outer
  Mid = Mid
  Base = Base
  Plain = Plain
  Tree = Tree
  Branch = Branch
  Types <- FlatTypes
  Schemas <- FlatSchemas
  MaxHeight = 2
  NoType = NoType
  Nodes = {1, 2, 3, 4, 5, 6, 7, 8, 9}
  NoNode = 0
  TypeOf <- FlatTypeOf
  Up <- FlatUp
  Top <- FlatTop
  Part <- FlatPart
  Unknown <- FlatUnknown
  AllowKeys <- FlatKeys
INVARIANTS
  CheckTypeOK
  VerdictIsJustified
  PolicyCommutes
