SPECIFICATION Spec
CONSTANT MaxClips = 2
INVARIANT AckOfOwnClip
CHECK_DEADLOCK FALSE
