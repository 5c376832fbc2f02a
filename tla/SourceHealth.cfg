\* The required outcome on health against the order of Start's last two steps.
SPECIFICATION Spec
CONSTANTS
  Streams = {s1}
  Kinds = {"DataIntegrity"}
  MaxEvents = 1
  BufferSize = 1
INVARIANT FailureShowsInHealth
CHECK_DEADLOCK FALSE
