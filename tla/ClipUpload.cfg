SPECIFICATION Spec
CONSTANTS
  CVR_THRESHHOLD_COUNT = 1
  MAXRETRY = 1
  STAT_UPLOAD_INTERVAL = 0
  NoClip = NoClip
  Never = Never
  Clips = {c1, c2, c3, c4, c5}
  Stamps = {s1, s2, s3, s4}
SYMMETRY Symmetry
INVARIANTS TypeOK FilesOwned SingleOwner DiskBound
PROPERTIES OneVerdict WatchdogExact LossyFifo
CHECK_DEADLOCK FALSE
