SPECIFICATION Spec
CONSTANTS
  RT_MSG_CVR_Q_SIZE_LIMIT = 2
  OD_FRAMES_MAX = 2
  VIDEO_DURATION_MAX = 1
  Results <- MCResults
  QuietIntervals = {0, 2}
  Delays = {1}
  MaxTime = 6
INVARIANTS TypeOK EventsOfClip BestFrame LevelsComplete SkipsJustified
CHECK_DEADLOCK FALSE
