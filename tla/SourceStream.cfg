\* One stream, every kind of error, a buffer of one and up to two events.
SPECIFICATION FairSpec
CONSTANTS
  Streams = {s1}
  Kinds = {"InvalidRequest", "Canceled", "UpstreamUnavailable", "DataIntegrity",
           "DownstreamUnavailable", "Internal", "canceled", "deadline", "plain"}
  MaxEvents = 2
  BufferSize = 1
INVARIANTS
  TypeOK
  OutcomeJustified
  HealthJustified
PROPERTIES
  CancelEndsStream
  StreamsEnd
CHECK_DEADLOCK FALSE
