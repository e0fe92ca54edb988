SPECIFICATION Spec
CONSTANTS
  Scripts <- MCScripts
  Handlers = {"chat", "responses"}
  MaxLine = 2
  MaxRead = 3
  PromptEstimate = 7
  VisionEstimate = 1
INVARIANTS
  TypeOK
  BillSound
PROPERTIES
  EveryStreamSettled
