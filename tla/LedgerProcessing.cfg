SPECIFICATION Spec
CONSTANTS
  Nil = Nil
  Contracts = {"c1", "c2"}
  Limb = 4
  MaxNesting = 2
  Txs <- MCTxs
  Keys <- MCKeys
  MaxTxs = 2
INVARIANTS
  EventsNumbered
  CallsAreEdges
  ArgumentsExact
  ChangesReplay
  ProcessorsAgree
CHECK_DEADLOCK FALSE
