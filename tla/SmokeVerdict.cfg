SPECIFICATION FairSpec
CONSTANTS
  Faults = {"anonymousAccepted", "oldCreateLives", "replayCreates", "secondKeyCreates", "keyReused", "invalidAccepted", "invalidKept", "foreignArchiveIssued", "shortArchive", "publicBucket", "lifecycleLost", "videoFails", "unscopedKey", "archiveTwice", "mixedRecords", "nonVideoAccepted", "archiveLeft", "deliveredTwice", "emailLost", "emailedTwice", "wrongRecipient", "corruptedMiscoded", "readMixed", "listLeaks", "readLeaks", "downloadLeaks", "internalFields"}
  PageSize = 2
  MaxExpiries = 2
  SharedAlice = TRUE
  CallsFail = TRUE
INVARIANTS TypeOK FaultsCaught NoFalseAlarm NoPodLeft
PROPERTIES SmokeEnds
CHECK_DEADLOCK FALSE
