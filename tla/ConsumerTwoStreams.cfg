\* Two concurrent streams of one event each; the consumer takes every type.
SPECIFICATION Spec
CONSTANTS
  Streams = {s1, s2}
  Types = {any}
  InputTypes = {}
  MaxEvents = 1
  SummaryLimit = 8
INVARIANTS
  CountersAgree
SYMMETRY StreamSymmetry
CHECK_DEADLOCK FALSE
