SPECIFICATION FairSpec
CONSTANTS
  EVENT_TRIGGER_ITEM_NUMBER_MAX = 6
  ComcastPartner = TRUE
  Texts <- MCTexts
  Instances = {main, other}
  Main = main
  Docs <- MCDocs
  NotOk = NotOk
  Broken <- MCBroken
  RetryAttributes <- MCRetryAttributes
  Initial <- MCInitial
  XPC_MAX_ERROR_COUNT = 2
  None = None
INVARIANTS TypeOK OneInstance AppliesReceived RecoveryWhenUnreachable Settled TriggerFollowsEvents
PROPERTIES ChangesReact KeepsPolling
CHECK_DEADLOCK FALSE
