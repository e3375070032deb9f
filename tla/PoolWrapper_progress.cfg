SPECIFICATION FairSpec
CONSTANTS
  t1 = t1
  t2 = t2
  default = default
  other = other
  third = third
  a1 = a1
  a2 = a2
  a3 = a3
  Base = Base
  Msg = Msg
  Ext = Ext
  Null = Null
  Threads <- TwoThreads
  Pools <- TwoPools
  DefaultPool = default
  Addr = {a1, a2}
  Names = {Base, Msg}
  Defines <- MCDefines
  Imports <- MCImports
  Generated = {Base}
  Yielding = {default}
  RehashAt <- Slots
INVARIANTS
  TypeOK
  FollowedPointerValid
  OnlyPythonIsWaitedFor
PROPERTIES
  CallsReturnUnlessStuck
CHECK_DEADLOCK FALSE
