SPECIFICATION Spec
CONSTANTS
  t1 = t1
  t2 = t2
  default = default
  other = other
  third = third
  a1 = a1
  a2 = a2
  a3 = a3
  Base = Base
  Msg = Msg
  Ext = Ext
  Null = Null
  Threads <- TwoThreads
  Pools <- ThreePools
  DefaultPool = default
  Addr = {a1, a2}
  Names = {Base, Msg, Ext}
  Defines <- MCDefines
  Imports <- MCImports
  Generated = {Base}
  Yielding = {default, other, third}
  RehashAt <- Slots
SYMMETRY ThreadSymmetry
INVARIANTS
  CachedPoolAlive
  MessageOfItsOwnPool
  MessageDescriptorsAlive
PROPERTIES
  ResultStaysCached
  ActsAsCache
CHECK_DEADLOCK FALSE
