SPECIFICATION Spec
CONSTANTS
  Jobs <- ResultJobs
  StaticWords = 4
INVARIANTS
  TypeOK
  FramesLinked
  StackFits
  RegistersStored
  AssertionsClosed
  ResultIsReference
PROPERTIES
  Ends
