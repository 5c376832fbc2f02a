\* Two callers that start and stop one component, any number of times.
SPECIFICATION FairSpec
CONSTANT Callers = {a, b}
INVARIANTS
  TypeOK
  ReleasedAtRest
  ReadyServes
  OneHeartbeat
PROPERTIES
  HeartbeatsEnd
  CallsReturn
CHECK_DEADLOCK FALSE
