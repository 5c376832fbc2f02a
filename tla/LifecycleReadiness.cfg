\* A Stop that overtakes a Start: the readiness signal it leaves.
SPECIFICATION Spec
CONSTANT Callers = {starter, stopper}
INVARIANT NoStaleReadiness
CHECK_DEADLOCK FALSE
