\* Two streams that compete for the source; producers that succeed, break their
\* contract or are cancelled.
SPECIFICATION Spec
CONSTANTS
  Streams = {s1, s2}
  Kinds = {}
  MaxEvents = 1
  BufferSize = 1
INVARIANTS
  OneStream
  MetricsAgree
PROPERTY
  ImplementsExclusive
SYMMETRY StreamSymmetry
CHECK_DEADLOCK FALSE
