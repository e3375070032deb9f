SPECIFICATION Spec
CONSTANTS
  Objects = {o1, o2, o3}
  IntMessage = IntMessage
  TestMessage = TestMessage
  AnyMessage = AnyMessage
  Null = Null
  Args <- AllArgs
  Bindings <- AllBindings
INVARIANTS
  TypeOK
  FirstAcceptingOverloadRuns
  BodyGetsTheArgument
  NothingLeaks
PROPERTIES
  LibraryKeepsItsObjects
SYMMETRY Symmetry
CHECK_DEADLOCK FALSE
