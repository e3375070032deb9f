SPECIFICATION FairSpec
CONSTANTS
  t1 = t1
  t2 = t2
  google_pb = google_pb
  a_b_pb2 = a_b_pb2
  gone_pb2 = gone_pb2
  extension = extension
  Own = Own
  Clash = Clash
  Null = Null
  Threads <- TwoThreads
  Types = {Own, Clash}
  ProtoModules = {a_b_pb2, gone_pb2}
  Google = google_pb
  Extensions = {extension}
  ModuleOf <- MCModuleOf
  Provides <- MCProvides
  Importable = {a_b_pb2, google_pb, extension}
  Linked = {Clash}
INVARIANTS
  TypeOK
  CachedModulesComplete
  PromisedCastSucceeds
PROPERTIES
  EveryCallReturns
