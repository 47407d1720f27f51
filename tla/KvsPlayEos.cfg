SPECIFICATION Spec
CONSTANT MaxClips = 1
INVARIANT LastEosFlushes
CHECK_DEADLOCK FALSE
