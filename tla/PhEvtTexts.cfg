SPECIFICATION Spec
CONSTANTS
  EventList <- SomeEvents
  Inputs <- AllInputs
INVARIANTS Understood Apart
CHECK_DEADLOCK FALSE
