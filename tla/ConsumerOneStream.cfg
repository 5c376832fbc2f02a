\* One stream of up to three events, of a type the consumer takes or not, under
\* the fairness of the scheduler.
SPECIFICATION FairSpec
CONSTANTS
  Streams = {s1}
  Types = {wanted, other}
  InputTypes = {wanted}
  MaxEvents = 3
  SummaryLimit = 1
INVARIANTS
  TypeOK
  AckSound
  AckDurable
  OneInOrder
PROPERTIES
  ImplementsDrain
  StopReturns
  StopReachesCallback
  DrainCompletes
CHECK_DEADLOCK FALSE
