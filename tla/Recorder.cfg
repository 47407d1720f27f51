SPECIFICATION FairSpec
CONSTANTS
  MaxVideo = 4
  MaxAudio = 4
INVARIANT TypeOK
PROPERTIES ClipsJoin SoundJoins CleanClips TermStops
CHECK_DEADLOCK FALSE
