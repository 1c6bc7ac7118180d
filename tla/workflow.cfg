SPECIFICATION FairSpec
CONSTANTS
  Senders = {sub, other}
  Subscriber = sub
  NoObject = NoObject
  MaxOutages = 1
  Triggers = {t1}
  NoTrigger = NoTrigger
  Kinds <- OneOfEach
  MaxCrashes = 1
  MaxRepeats = 2
INVARIANTS BlockedExplained RecordTellsTruth
PROPERTIES KeepsPromise EventuallyRecorded
CHECK_DEADLOCK FALSE
