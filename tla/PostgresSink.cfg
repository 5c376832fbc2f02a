\* Two streams, a pool of two connections, a batch that is accepted, one with an
\* event that is refused, the empty batch, and an event that is inserted alone.
SPECIFICATION FairSpec
CONSTANTS
  Streams = {s1, s2}
  Batches = {{}, {a1, a2}, {b1, bad}}
  Singles = {c}
  Bad = {bad}
  MaxOpenConns = 2
INVARIANTS
  TypeOK
  AllOrNothing
  RetriesAccounted
PROPERTIES
  EndFrees
  WaitEnds
CHECK_DEADLOCK FALSE
