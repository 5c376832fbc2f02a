\* The remediation plan's "wait/reap it" against the code.
SPECIFICATION Spec
CONSTANTS
  Streams = {s1}
  Types = {wanted}
  InputTypes = {wanted}
  MaxEvents = 1
  SummaryLimit = 8
INVARIANT ReapedOnReturn
CHECK_DEADLOCK FALSE
