SPECIFICATION Spec
CONSTANTS
  t1 = t1
  t2 = t2
  default = default
  other = other
  third = third
  a1 = a1
  a2 = a2
  a3 = a3
  Base = Base
  Msg = Msg
  Ext = Ext
  Null = Null
  Threads <- TwoThreads
  Pools <- TwoPools
  DefaultPool = default
  Addr = {a1, a2}
  Names = {Base, Msg, Ext}
  Defines <- MCDefines
  Imports <- MCImports
  Generated = {Base}
  Yielding = {other}
  RehashAt <- Slots
INVARIANTS
  PoolDataValid
CHECK_DEADLOCK FALSE
