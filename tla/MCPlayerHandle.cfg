SPECIFICATION FairSpec
CONSTANTS
  s1 = s1
  s2 = s2
  ended = ended
  gapless = gapless
  Submitters <- MCSubmitters
  NoSubmitter = NoSubmitter
  NoSnapshot = NoSnapshot
  MaxTransports = 3
  MaxQueue = 1
  MaxEvents = 2
  FlagKinds <- MCFlagKinds
  SlotKinds <- MCSlotKinds
INVARIANTS TypeOK OneRequestQueued
PROPERTIES ReadsAreFresh EventsKept ReceiptsInOrder ReceiptsSettle ReadsResume
