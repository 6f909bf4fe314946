SPECIFICATION Spec
INVARIANT ConsistencyRequirements
CHECK_DEADLOCK FALSE
