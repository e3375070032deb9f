SPECIFICATION CheckSpec
CONSTANTS
  Outer = Outer
  Mid = Mid
  Base = Base
  Plain = Plain
  Tree = Tree
  Branch = Branch
  Types <- RoundTypes
  Schemas <- RoundSchemas
  MaxHeight = 2
  NoType = NoType
  Nodes = {1, 2, 3, 4, 5}
  NoNode = 0
  TypeOf <- RoundTypeOf
  Up <- RoundUp
  Top <- RoundTop
  Part <- RoundPart
  Unknown <- RoundUnknown
  AllowKeys = {}
INVARIANTS
  NothingSlips
