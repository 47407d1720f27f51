SPECIFICATION FairSpec
CONSTANT MaxClips = 3
INVARIANTS TypeOK SuccessesAcked
PROPERTY LoopEnds
CHECK_DEADLOCK FALSE
