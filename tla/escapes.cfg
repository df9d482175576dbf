CONSTANT Programs <- Stores
SPECIFICATION Spec
INVARIANT EscapingIsOnTheHeap
CHECK_DEADLOCK FALSE
