SPECIFICATION Spec
CONSTANTS
  MaxVideo = 4
  MaxAudio = 4
INVARIANT AudioFailureIgnored
CHECK_DEADLOCK FALSE
