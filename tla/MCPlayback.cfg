SPECIFICATION FairSpec
CONSTANTS
  t1 = t1
  t2 = t2
  t3 = t3
  stereo = stereo
  NoTrack = NoTrack
  Tracks <- MCTracks
  Settings <- MCSettings
INVARIANTS TypeOK InStep
PROPERTIES RestartsFaithfully StaysStopped QueueFinishes
