SPECIFICATION FairSpec
CONSTANTS
  CVR_THRESHHOLD_COUNT = 0
  MAXRETRY = 0
  STAT_UPLOAD_INTERVAL = 1
  NoClip = NoClip
  Never = Never
  Clips = {1, 2, 3}
  Stamps = {0, 1, 2, 3}
ACTION_CONSTRAINT LiveSteps
PROPERTIES HangDetected NoClipStuck
CHECK_DEADLOCK FALSE
