SPECIFICATION Spec
CONSTANTS
  Singular <- MCSingular
  Repeated <- MCRepeated
  Maps <- MCMaps
  Embedded <- MCRepeated
  PyValues <- MCPyValues
  Calling = {"caller"}
  Malformed = {"a_bytes"}
  Contents <- MCContents
  Default = "default"
  Refused = "refused"
  ValueCast <- MCValueCast
  KeyCast <- MCKeyCast
  KeyPython <- MCKeyPython
  Class <- MCClass
  Arguments <- MCArguments
  Keywords <- MCKeywords
  Donors <- MCDonors
  Indices <- MCIndices
  Steps <- MCSteps
  TypeName = "Type"
  MaxLen = 2
INVARIANTS
  TypeOK
  ElementsLikeList
  SlicesLikeList
  FailuresKeepElements
  KeysDistinct
  SetThenFound
  
