\* Two streams that share the handlers and the counters; events of a type that has a
\* handler, or none when the program registers none, and messages that cannot be read.
SPECIFICATION FairSpec
CONSTANTS
  Streams = {s1, s2}
  Types = {a}
  Unreadable = x
  InputTypes = {{a}}
  CtxErrors = {"Canceled"}
  MaxEvents = 2
  MaxHandlers = 1
INVARIANTS
  TypeOK
  StatusJustified
  MetricsAgree
  ReportsAgree
  StopBounded
PROPERTIES
  EndsWithClient
  StopReturns
CHECK_DEADLOCK FALSE
