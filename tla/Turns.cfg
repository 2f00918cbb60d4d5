\* A client sends its next message when it has read the last event of a turn.
SPECIFICATION Spec
CONSTANT MaxMessages = 2
INVARIANT OneTurnAtATime
CHECK_DEADLOCK FALSE
