SPECIFICATION Spec
CONSTANTS
  Jobs <- SharedJobs
  StaticWords = 4
PROPERTIES
  RestoresCaptures
  CopiesCaptures
