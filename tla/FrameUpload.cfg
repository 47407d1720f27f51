SPECIFICATION Spec
CONSTANTS
  CVR_THRESHHOLD_COUNT = 2
  CVR_THRESHHOLD_CLIPS = 1
  CVR_THRESHHOLD_FRAMEDROP = 1
  USE_EPOCH = FALSE
  KVSINITMAXRETRY = 1
  MaxFrames = 3
  MaxChanges = 1
INVARIANTS TypeOK ReportsTruthful FragmentsSeparate SilenceBounded
PROPERTIES TermStops
CHECK_DEADLOCK FALSE
