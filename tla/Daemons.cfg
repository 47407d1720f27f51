SPECIFICATION MCSpec
CONSTANTS
  CVR_THRESHHOLD_COUNT = 1
  CVR_UPLOAD_TIMEOUT_INTERVAL = 3
  timeout = 2
  minInterval = 1
  maxInterval = 1
  Clips = {a, b}
  MaxQueue = 2
  KVSUPLOAD_Q_SIZE_LIMIT = 3
  noOfSamples = 3
  KVSINITMAXRETRY = 1
INVARIANTS ImageTypeOK FilesOwned
PROPERTIES ClipsLeave HangJustified HangDetected
CHECK_DEADLOCK FALSE
