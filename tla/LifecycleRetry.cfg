\* One caller that starts a component again after a Start that failed.
SPECIFICATION Spec
CONSTANT Callers = {owner}
INVARIANT FailedStartRetries
CHECK_DEADLOCK FALSE
