CONSTANTS Containers = {c1, c2}
SPECIFICATION Spec
INVARIANT AllFrozen
CHECK_DEADLOCK FALSE
